---- MODULE Spec2Model ----
(***************************************************************************)
(* LE Audio HCI offload proxy: the arbiter (offload/leaudio/hci/arbiter.rs) *)
(* and the proxy state machine (offload/leaudio/hci/proxy.rs), with the    *)
(* sink module and the controller as their environment.                    *)
(*                                                                         *)
(* An Option<T> is a sequence of length 0 (None) or 1 (Some).  A HashMap   *)
(* is a function whose DOMAIN is its key set.  A panic (unwrap, assert,    *)
(* arithmetic overflow check) aborts the process: panicked becomes TRUE    *)
(* and no handler runs any more.                                           *)
(***************************************************************************)
EXTENDS Integers, Sequences, FiniteSets, TLC

\* ------------------------------------------------------------------ bounds

\* Packets each producer may push during a run.
MaxPush == 2
\* Packets the two producers together may push through the proxy between
\* two resets.
MaxProxyPush == 1
\* Largest count of one set_completed call / NumberOfCompletedPackets entry.
MaxAck == 2
\* Largest total_num_iso_data_packets the controller reports.
MaxBufCount == 2
\* Largest payload length of a pushed ISO packet.
MaxPayload == 1

\* Connection handles of the run.
Handles == {1, 2}

\* ------------------------------------------------------- program constants

\* enum Origin { Audio, Incoming }: the index of a producer's queue.
Audio == 0
Incoming == 1
Origins == {Audio, Incoming}

\* Bytes of the ISO data packet header (handle/flags word, length word).
IsoHeaderLen == 4
\* Bytes of the SDU header without its timestamp; the timestamp doubles it.
SduHeaderLen == 4

\* Largest connection handle an ISO data packet can carry (12 bits), and
\* largest u16.
MaxConnectionHandle == 4095
U16Max == 65535

\* const DATA_PATH_ID_SOFTWARE: the data path id that requests the offload.
DATA_PATH_ID_SOFTWARE == 25

\* iso_data_packet_length values the controller reports.
BufLens == {SduHeaderLen}
\* total_num_iso_data_packets values the controller reports.
BufCounts == 1..MaxBufCount

\* HCI Status values of the run: Success and one failure.
Statuses == {"Success", "CommandDisallowed"}
\* Handles of connections that carry no ISO data (ACL links).
OtherHandles == {3}
\* cig_id and big_handle values of the run.
CigIds == {1}
BigHandles == {1}
\* SDU intervals (us) the host requests, ISO intervals (1.25 ms units) the
\* controller reports: 16 is a multiple of the SDU interval, 12 is not.
SduIntervals == {10000}
IsoIntervals == {12, 16}
\* The ISO handles the controller hands out in the runs of the proxy, and
\* the lists of them a completion event returns.
ProxyHandles == {1}
HandleLists == {<<>>, <<1>>}

\* ---------------------------------------------------------------- helpers

EmptyMap == [x \in {} |-> 0]
MapPut(m, k, v) == [x \in (DOMAIN m) \cup {k} |-> IF x = k THEN v ELSE m[x]]
MapDel(m, k) == [x \in (DOMAIN m) \ {k} |-> m[x]]

RECURSIVE SumOver(_, _)
SumOver(m, S) ==
    IF S = {} THEN 0
    ELSE LET x == CHOOSE y \in S : TRUE IN m[x] + SumOver(m, S \ {x})

\* ------------------------------------------------------------------ state

VARIABLES
    big,        \* proxy State.big: big_handle -> BigParameters
    cig,        \* proxy State.cig: cig_id -> CigParameters
    stream,     \* proxy State.stream: connection_handle -> Stream
    arbiter,    \* Option<Arbiter>: its State, its limits and its sender thread
    service,    \* offload service State: the streams reported active
    panicked,   \* the process has panicked
    hal,        \* the HAL binding: its State, the Ffi wrapper, the call in progress
    upgraded,   \* the Arc<Arbiter> a sendPacket call in progress has upgraded
    intake,     \* out_cmd and in_evt calls in progress, and the order of their steps
    setup_sent, \* per handle, the oldest LeSetupIsoDataPath command not yet completed
    ctrl,       \* controller: per handle, ISO packets received and not yet completed
    started,    \* handles with a stream-start emitted and no stream-stop since
    stack_owed, \* per handle, stack-originated packets delivered to the sink
                \* less the completed packets forwarded upstream
    pushed,     \* per producer, the packets it has queued so far (packet ids)
    emitted,    \* per producer and handle, the id of the last packet the sink got
    stale,      \* the packet the sender holds was for a handle removed since
    last        \* the last operation: its input and what it delivered

proxy_vars == <<big, cig, stream, service>>
env_vars == <<ctrl, started, stack_owed>>
arb_vars == <<arbiter, pushed, emitted, stale>>
call_vars == <<hal, upgraded, intake>>
vars == <<big, cig, stream, arbiter, service, panicked, hal, upgraded, intake, setup_sent,
          ctrl, started, stack_owed, pushed, emitted, stale, last>>

\* ---------------------------------------------------------------- ISO data

\* IsoSduFragment of a packet: First with or without timestamp, or Continue.
Fragments == {"First", "FirstTs", "Continue"}

\* IsoData::sdu_header_len
sdu_header_len(fragment) ==
    IF fragment = "First" THEN SduHeaderLen
    ELSE IF fragment = "FirstTs" THEN 2 * SduHeaderLen
    ELSE 0

\* Length of IsoData::to_bytes(): header, SDU header, payload.
iso_to_bytes_len(iso_data) ==
    IsoHeaderLen + sdu_header_len(iso_data.fragment) + iso_data.payload_len

\* The packets a producer may hand to the arbiter.
IsoDatas ==
    [connection_handle : Handles, fragment : Fragments, payload_len : 0..MaxPayload]

\* The bytes of an HCI ISO Data packet, as far as parsing reads them: the
\* handle and the fragment flags of the first word, the data length field of
\* the second, and the number of bytes there are (len).
\* IsoData::to_bytes
iso_to_bytes(iso_data) ==
    [ connection_handle |-> iso_data.connection_handle,
      fragment |-> iso_data.fragment,
      data_len |-> sdu_header_len(iso_data.fragment) + iso_data.payload_len,
      len |-> iso_to_bytes_len(iso_data) ]

\* IsoData::from_bytes: None (<<>>) when the header, the SDU header or the
\* payload is cut short, or the data length is below the SDU header's.
IsoData_from_bytes(data) ==
    LET hdr == sdu_header_len(data.fragment) IN
    IF \/ data.len < IsoHeaderLen + hdr
       \/ data.data_len < hdr
       \/ IsoHeaderLen + data.data_len > data.len
    THEN <<>>
    ELSE << [ connection_handle |-> data.connection_handle,
              fragment |-> data.fragment,
              payload_len |-> data.data_len - hdr ] >>

\* The ISO packets the stack may send: well formed, or with the last byte
\* missing.
IsoBytes ==
    { iso_to_bytes(d) : d \in IsoDatas }
      \cup { [iso_to_bytes(d) EXCEPT !.len = @ - 1] : d \in IsoDatas }

\* ----------------------------------------------------------------- arbiter

\* Arbiter::new: empty State, sender thread spawned and about to lock.
\* pc: "lock" (about to take the mutex and scan), "wait" (blocked on the
\* condition variable), "send" (mutex released, holding a packet for the
\* sink), "exit".
Arbiter_new(max_buf_len, max_buf_count) ==
    [ halt |-> FALSE,
      queues |-> [o \in Origins |-> <<>>],
      in_transit |-> EmptyMap,
      max_buf_len |-> max_buf_len,
      max_buf_count |-> max_buf_count,
      pc |-> "lock",
      packet |-> <<>> ]

\* A faulty variant of the notification: it is lost.
notify_lost(a) == a
\* Condvar::notify_one: the sender, if blocked in wait, becomes runnable.
notify_one(a) == IF a.pc = "wait" THEN [a EXCEPT !.pc = "lock"] ELSE a

\* state.in_transit.values().sum()
in_transit_sum(a) == SumOver(a.in_transit, DOMAIN a.in_transit)

\* Arbiter::add_connection panics on a handle already tracked.
add_connection_panics(a, handle) == handle \in DOMAIN a.in_transit
add_connection(a, handle) ==
    [a EXCEPT !.in_transit = MapPut(@, handle, 0)]

\* A faulty variant of remove_connection: the queues keep the packets of
\* the handle.
remove_connection_kept(a, handle) ==
    LET purged == [a EXCEPT !.in_transit = MapDel(@, handle)]
    IN IF handle \in DOMAIN a.in_transit THEN notify_one(purged) ELSE purged
\* Arbiter::remove_connection
remove_connection(a, handle) ==
    LET purged == [a EXCEPT
                     !.queues = [o \in Origins |->
                                   SelectSeq(a.queues[o], LAMBDA p : p.handle # handle)],
                     !.in_transit = MapDel(@, handle)]
    IN IF handle \in DOMAIN a.in_transit THEN notify_one(purged) ELSE purged

\* Arbiter::set_completed: the subtraction is overflow-checked (usize).
set_completed_panics(a, handle, num) ==
    handle \in DOMAIN a.in_transit /\ num > a.in_transit[handle]
set_completed(a, handle, num) ==
    IF handle \in DOMAIN a.in_transit
    THEN notify_one([a EXCEPT !.in_transit[handle] = @ - num])
    ELSE a

\* IsoData::to_bytes, pack!((connection_handle, 12), ...): the assertion
\* that the handle has no bit above its field.
iso_to_bytes_panics(iso_data) == iso_data.connection_handle > MaxConnectionHandle

\* Arbiter::push: the size assertion comes before the lookup of the handle.
\* A faulty variant of the assertion: the SDU header is not counted.
push_size_ok_payload(a, iso_data) == iso_data.payload_len <= a.max_buf_len
push_size_ok(a, iso_data) == iso_to_bytes_len(iso_data) <= a.max_buf_len + IsoHeaderLen
\* A faulty variant of the enqueue: the packet goes to the front.
push_enqueue_front(queue, packet) == <<packet>> \o queue
push_enqueue(queue, packet) == Append(queue, packet)
\* A faulty variant of push: the lookup of the handle is missing.
push_untracked(a, origin, iso_data, id) ==
    LET packet == [handle |-> iso_data.connection_handle, origin |-> origin, id |-> id]
    IN notify_one([a EXCEPT !.queues[origin] = push_enqueue(@, packet)])
\* A faulty variant of push: the sender is not notified.
push_silent(a, origin, iso_data, id) ==
    LET handle == iso_data.connection_handle
        packet == [handle |-> handle, origin |-> origin, id |-> id]
    IN IF handle \in DOMAIN a.in_transit
       THEN [a EXCEPT !.queues[origin] = push_enqueue(@, packet)]
       ELSE a
push(a, origin, iso_data, id) ==
    LET handle == iso_data.connection_handle
        packet == [handle |-> handle, origin |-> origin, id |-> id]
    IN IF handle \in DOMAIN a.in_transit
       THEN notify_one([a EXCEPT !.queues[origin] = push_enqueue(@, packet)])
       ELSE a

\* Arbiter::pull: the first queue, in index order, that is non-empty while
\* credits remain; <<>> when there is none.
\* A faulty variant of the credit test: off by one.
pull_skip_lenient(a, idx) ==
    a.queues[idx] = <<>> \/ a.max_buf_count < in_transit_sum(a)
pull_skip(a, idx) ==
    a.queues[idx] = <<>> \/ a.max_buf_count <= in_transit_sum(a)
\* A faulty variant of the scan: the Incoming queue first.
pull_order_reversed == <<Incoming, Audio>>
pull_order == <<Audio, Incoming>>
pull_index(a) ==
    IF ~pull_skip(a, pull_order[1]) THEN <<pull_order[1]>>
    ELSE IF ~pull_skip(a, pull_order[2]) THEN <<pull_order[2]>>
    ELSE <<>>
pull_panics(a) ==
    /\ pull_index(a) # <<>>
    /\ Head(a.queues[pull_index(a)[1]]).handle \notin DOMAIN a.in_transit
pull_pop(queue) == Tail(queue)
\* A faulty variant of pull: the popped packet is not counted.
pull_uncounted(a) ==
    LET idx == pull_index(a)[1]
        packet == Head(a.queues[idx])
    IN [a EXCEPT !.queues[idx] = pull_pop(@),
                 !.packet = <<packet>>]
pull(a) ==
    LET idx == pull_index(a)[1]
        packet == Head(a.queues[idx])
    IN [a EXCEPT !.queues[idx] = pull_pop(@),
                 !.in_transit[packet.handle] = @ + 1,
                 !.packet = <<packet>>]

\* ------------------------------------------------------------------ proxy

\* (e.iso_interval as u32) * 1250
iso_interval_us(e) == e.iso_interval * 1250

\* The CisParameters the outgoing LeSetCigParameters records: handle 0.
CigParameters_new(c) ==
    [ sdu_interval_c_to_p |-> c.sdu_interval_c_to_p,
      sdu_interval_p_to_c |-> c.sdu_interval_p_to_c,
      cis |-> [i \in 1..Len(c.cis) |->
                 [ handle |-> 0,
                   max_sdu_size_c_to_p |-> c.cis[i].max_sdu_c_to_p,
                   max_sdu_size_p_to_c |-> c.cis[i].max_sdu_p_to_c ]] ]

\* The BigParameters the outgoing LeCreateBig records: no handle yet.
BigParameters_new(c) ==
    [ sdu_interval |-> c.sdu_interval,
      max_sdu_size |-> c.max_sdu,
      bis_handles |-> <<>> ]

\* The handles of the CIS of a CIG record, in the order of the record.
cis_handles(g) == [i \in 1..Len(g.cis) |-> g.cis[i].handle]
\* cig.cis.iter().any(|s| s.handle == handle)
cig_has(g, handle) == \E i \in 1..Len(g.cis) : g.cis[i].handle = handle

\* Stream::new_cis: the framing assertions, then the Disabled stream.
new_cis_panics(g, e) ==
    \/ ~(g.sdu_interval_c_to_p = 0 \/ iso_interval_us(e) % g.sdu_interval_c_to_p = 0)
    \/ ~(g.sdu_interval_p_to_c = 0 \/ iso_interval_us(e) % g.sdu_interval_p_to_c = 0)
\* A faulty variant of new_cis: the parameters of the first CIS of the CIG,
\* whichever handle was established.
new_cis_first(g, e) ==
    LET cis == g.cis[1]
    IN [ state |-> "Disabled",
         iso_interval_us |-> iso_interval_us(e),
         iso_type |->
           [ kind |-> "Cis",
             c_to_p |-> [ sdu_interval_us |-> g.sdu_interval_c_to_p,
                          max_sdu_size |-> cis.max_sdu_size_c_to_p,
                          flush_timeout |-> e.ft_c_to_p ],
             p_to_c |-> [ sdu_interval_us |-> g.sdu_interval_p_to_c,
                          max_sdu_size |-> cis.max_sdu_size_p_to_c,
                          flush_timeout |-> e.ft_p_to_c ] ] ]
new_cis(g, e) ==
    LET i == CHOOSE i \in 1..Len(g.cis) :
                 /\ g.cis[i].handle = e.connection_handle
                 /\ \A j \in 1..(i - 1) : g.cis[j].handle # e.connection_handle
        cis == g.cis[i]
    IN [ state |-> "Disabled",
         iso_interval_us |-> iso_interval_us(e),
         iso_type |->
           [ kind |-> "Cis",
             c_to_p |-> [ sdu_interval_us |-> g.sdu_interval_c_to_p,
                          max_sdu_size |-> cis.max_sdu_size_c_to_p,
                          flush_timeout |-> e.ft_c_to_p ],
             p_to_c |-> [ sdu_interval_us |-> g.sdu_interval_p_to_c,
                          max_sdu_size |-> cis.max_sdu_size_p_to_c,
                          flush_timeout |-> e.ft_p_to_c ] ] ]

\* Stream::new_bis: the remainder by sdu_interval (a division by zero
\* panics), the framing assertion, then the Disabled stream.
new_bis_panics(b, e) ==
    b.sdu_interval = 0 \/ iso_interval_us(e) % b.sdu_interval # 0
new_bis(b, e) ==
    [ state |-> "Disabled",
      iso_interval_us |-> iso_interval_us(e),
      iso_type |->
        [ kind |-> "Bis",
          c_to_p |-> [ sdu_interval_us |-> b.sdu_interval,
                       max_sdu_size |-> b.max_sdu_size,
                       flush_timeout |-> e.irc ] ] ]

\* The StreamConfiguration of a stream-start: the c_to_p direction.
StreamConfiguration(st) ==
    [ isoIntervalUs |-> st.iso_interval_us,
      sduIntervalUs |-> st.iso_type.c_to_p.sdu_interval_us,
      maxSduSize |-> st.iso_type.c_to_p.max_sdu_size,
      flushTimeout |-> st.iso_type.c_to_p.flush_timeout ]

\* A faulty variant of the rewrite: the data path id is kept.
LeSetupIsoDataPath_kept(c) ==
    [ kind |-> c.kind,
      connection_handle |-> c.connection_handle,
      data_path_direction |-> c.data_path_direction,
      data_path_id |-> c.data_path_id,
      codec_id |-> c.codec_id,
      controller_delay |-> c.controller_delay,
      codec_configuration |-> c.codec_configuration,
      trailing |-> 0 ]
\* hci::LeSetupIsoDataPath { data_path_id: 0, ..c.clone() }.to_bytes(): the
\* parsed fields are written back; bytes that followed them are not.
LeSetupIsoDataPath_rewritten(c) ==
    [ kind |-> c.kind,
      connection_handle |-> c.connection_handle,
      data_path_direction |-> c.data_path_direction,
      data_path_id |-> 0,
      codec_id |-> c.codec_id,
      controller_delay |-> c.controller_delay,
      codec_configuration |-> c.codec_configuration,
      trailing |-> 0 ]

\* A faulty variant of the test: every stream of the map counts as offloaded.
nocp_is_audio_any(streams, handle) == handle \in DOMAIN streams
\* NumberOfCompletedPackets: the entry goes to audio_event (is not forwarded)
\* when its handle is a stream in state Enabled.
nocp_is_audio(streams, handle) ==
    handle \in DOMAIN streams /\ streams[handle].state = "Enabled"

\* The loop's set_completed calls, in the order of the entries.
RECURSIVE nocp_set_completed_panics(_, _)
nocp_set_completed_panics(a, handles) ==
    IF handles = <<>> THEN FALSE
    ELSE LET item == Head(handles) IN
         \/ set_completed_panics(a, item.connection_handle, item.num_completed_packets)
         \/ nocp_set_completed_panics(
                set_completed(a, item.connection_handle, item.num_completed_packets),
                Tail(handles))
\* A faulty variant of the loop: only the first entry is credited.
nocp_set_completed_head(a, handles) ==
    IF handles = <<>> THEN a
    ELSE set_completed(a, Head(handles).connection_handle,
                       Head(handles).num_completed_packets)
RECURSIVE nocp_set_completed(_, _)
nocp_set_completed(a, handles) ==
    IF handles = <<>> THEN a
    ELSE LET item == Head(handles) IN
         nocp_set_completed(
             set_completed(a, item.connection_handle, item.num_completed_packets),
             Tail(handles))

\* stack_event.handles: the entries that are not pushed to audio_event.
nocp_stack_handles(streams, handles) ==
    SelectSeq(handles, LAMBDA item : ~nocp_is_audio(streams, item.connection_handle))

\* hci::NumberOfCompletedPackets::to_bytes: the entries, nothing after them.
NumberOfCompletedPackets_to_bytes(handles) ==
    [ kind |-> "NumberOfCompletedPackets", handles |-> handles, trailing |-> 0 ]

\* Service::start_stream, Service::stop_stream, Service::reset on the
\* service's State.  Its Weak<Arbiter> upgrades exactly while the proxy
\* holds an arbiter: reset always hands over the one just created.
\* A faulty variant of start_stream: the stream is recorded only when a
\* client is registered.
Service_start_stream_registered(s, handle, config) ==
    IF s.callbacks = <<>> THEN s ELSE [s EXCEPT !.streams = MapPut(@, handle, config)]
Service_start_stream(s, handle, config) ==
    [s EXCEPT !.streams = MapPut(@, handle, config)]
Service_stop_stream(s, handle) ==
    [s EXCEPT !.streams = MapDel(@, handle)]
Service_reset(s) == [streams |-> EmptyMap, callbacks |-> <<>>]

\* IsoData::new(handle, seqnum, data): one complete SDU without timestamp.
IsoData_new(handle, payload_len) ==
    [ connection_handle |-> handle, fragment |-> "First", payload_len |-> payload_len ]

\* Drop for Arbiter: halt, notify, join.  The sender, if it holds a packet,
\* hands it to the sink before it sees halt: the packets the drop delivers.
drop_delivers(arb) ==
    IF arb # <<>> /\ arb[1].pc = "send" THEN arb[1].packet ELSE <<>>

\* The Arc<Arbiter> a sendPacket call has upgraded from the service's Weak:
\* shared with the proxy, or the last one ("own") once the proxy has dropped
\* its Arc, when the call holds the arbiter arb and its sender thread.
Upgraded(arc, arb, pushed_audio) ==
    [arc |-> arc, arbiter |-> arb, pushed |-> pushed_audio, pulled |-> FALSE]

\* The proxy drops its Arc<Arbiter>: a call that shares it becomes its owner.
moved_to_upgraded(arb) ==
    IF upgraded # <<>> /\ upgraded[1].arc = "shared"
    THEN <<[upgraded[1] EXCEPT !.arc = "own", !.arbiter = arb]>>
    ELSE upgraded

\* ------------------------------------------------------------ bookkeeping

NoArg == [none |-> TRUE]
Op(name, arg) == [op |-> name, arg |-> arg]

\* The values every run starts from, apart from the arbiter.
NoCounts == [h \in Handles |-> 0]
NoService == [streams |-> EmptyMap, callbacks |-> <<>>]
NoPushed == [o \in Origins |-> 0]
NoEmitted == [o \in Origins |-> [h \in Handles |-> 0]]
\* HciHalProxy::new: State::Closed, no client in the Ffi wrapper, no call
\* in progress, the driver not initialized.
\* state, proxy: State::Closed, or State::Opened with the pipeline built for
\* a client's callbacks and the death watch on that client;
\* wrapper: Ffi.wrapper, the FfiCallbacks of the client given to the driver;
\* initializing: an initialize call that has released the state lock and is
\* about to call Ffi::initialize with these callbacks;
\* closing: a close call that has set State::Closed and is about to call
\* Ffi::close;
\* driver: "off", "starting" (initialize called, completion not yet reported),
\* "on" (completed with Success), "failed".
NoHal ==
    [ state |-> "Closed", proxy |-> <<>>, wrapper |-> <<>>,
      initializing |-> <<>>, closing |-> FALSE, driver |-> "off" ]
NoSetup == [h \in Handles |-> <<>>]
\* No out_cmd or in_evt call in progress: per thread the packet it has taken
\* in and not yet handed on, the number of packets taken in so far, and the
\* packets handed on, each by its number in the order of the intake.
IntakeThreads == {1, 2}
NoIntake == [held |-> [t \in IntakeThreads |-> <<>>], taken |-> 0, sent |-> <<>>]

\* No traffic yet, no call in progress.
Idle ==
    /\ service = NoService
    /\ ctrl = NoCounts
    /\ started = {}
    /\ stack_owed = NoCounts
    /\ pushed = NoPushed
    /\ emitted = NoEmitted
    /\ stale = FALSE
    /\ hal = NoHal
    /\ upgraded = <<>>
    /\ intake = NoIntake
    /\ setup_sent = NoSetup

Fresh ==
    /\ big = EmptyMap /\ cig = EmptyMap /\ stream = EmptyMap
    /\ Idle

\* A panic aborts the process: nothing of its state is left to observe.
Panic(name, arg) ==
    /\ panicked' = TRUE
    /\ arbiter' = <<>>
    /\ big' = EmptyMap /\ cig' = EmptyMap /\ stream' = EmptyMap
    /\ service' = NoService
    /\ ctrl' = NoCounts
    /\ started' = {}
    /\ stack_owed' = NoCounts
    /\ pushed' = NoPushed
    /\ emitted' = NoEmitted
    /\ stale' = FALSE
    /\ hal' = NoHal
    /\ upgraded' = <<>>
    /\ intake' = NoIntake
    /\ setup_sent' = NoSetup
    /\ last' = [op |-> "panic", arg |-> [in |-> name, arg |-> arg]]

\* --------------------------------------------------- arbiter: the callers

\* A caller of Arbiter::add_connection.
AddConnection ==
    /\ ~panicked /\ arbiter # <<>>
    /\ \E handle \in Handles :
         IF add_connection_panics(arbiter[1], handle)
         THEN Panic("add_connection", [handle |-> handle])
         ELSE /\ arbiter' = <<add_connection(arbiter[1], handle)>>
              /\ last' = Op("add_connection", [handle |-> handle])
              /\ UNCHANGED <<panicked, call_vars, setup_sent, pushed, emitted, stale, proxy_vars, env_vars>>

\* A caller of Arbiter::remove_connection.
RemoveConnection ==
    /\ ~panicked /\ arbiter # <<>>
    /\ \E handle \in Handles :
         /\ arbiter' = <<remove_connection(arbiter[1], handle)>>
         /\ stale' = (stale \/ (arbiter[1].pc = "send"
                                 /\ arbiter[1].packet[1].handle = handle))
         /\ last' = Op("remove_connection", [handle |-> handle])
         /\ UNCHANGED <<panicked, call_vars, setup_sent, pushed, emitted, proxy_vars, env_vars>>

\* Arbiter::push_audio / push_incoming from a caller.
DoPush(origin, iso_data) ==
    LET a == arbiter[1]
        tracked == iso_data.connection_handle \in DOMAIN a.in_transit
    IN IF iso_to_bytes_panics(iso_data)
       THEN Panic("to_bytes", [origin |-> origin, handle |-> iso_data.connection_handle])
       ELSE IF ~push_size_ok(a, iso_data)
       THEN Panic("push", [origin |-> origin, handle |-> iso_data.connection_handle,
                           fits |-> FALSE, iso_data |-> iso_data,
                           max_buf_len |-> a.max_buf_len])
       ELSE /\ arbiter' = <<push(a, origin, iso_data, pushed[origin] + 1)>>
            /\ pushed' = [pushed EXCEPT ![origin] = IF tracked THEN @ + 1 ELSE @]
            /\ last' = Op("push", [origin |-> origin, handle |-> iso_data.connection_handle,
                                    fits |-> push_size_ok(a, iso_data), iso_data |-> iso_data,
                                    max_buf_len |-> a.max_buf_len])
            /\ UNCHANGED <<panicked, call_vars, setup_sent, emitted, stale, proxy_vars, env_vars>>

PushAudio ==
    /\ ~panicked /\ arbiter # <<>> /\ pushed[Audio] < MaxPush
    /\ \E iso_data \in IsoDatas : DoPush(Audio, iso_data)

PushIncoming ==
    /\ ~panicked /\ arbiter # <<>> /\ pushed[Incoming] < MaxPush
    /\ \E iso_data \in IsoDatas : DoPush(Incoming, iso_data)

\* A caller of Arbiter::set_completed.
SetCompleted ==
    /\ ~panicked /\ arbiter # <<>>
    /\ \E handle \in Handles, num \in 0..MaxAck :
         IF set_completed_panics(arbiter[1], handle, num)
         THEN Panic("set_completed", [handle |-> handle, num |-> num])
         ELSE /\ arbiter' = <<set_completed(arbiter[1], handle, num)>>
              /\ last' = Op("set_completed", [handle |-> handle, num |-> num])
              /\ UNCHANGED <<panicked, call_vars, setup_sent, pushed, emitted, stale, proxy_vars, env_vars>>

\* --------------------------------------------------- arbiter: the sender

\* Arbiter::thread_loop, under the mutex: leave on halt, take the packet
\* pull() selects, or wait on the condition variable.
ThreadLock ==
    /\ ~panicked /\ arbiter # <<>> /\ arbiter[1].pc = "lock"
    /\ LET a == arbiter[1] IN
         IF a.halt
         THEN /\ arbiter' = <<[a EXCEPT !.pc = "exit"]>>
              /\ last' = Op("thread_exit", NoArg)
              /\ UNCHANGED <<panicked, call_vars, setup_sent, pushed, emitted, stale, proxy_vars, env_vars>>
         ELSE IF pull_index(a) = <<>>
         THEN /\ arbiter' = <<[a EXCEPT !.pc = "wait"]>>
              /\ last' = Op("thread_wait", NoArg)
              /\ UNCHANGED <<panicked, call_vars, setup_sent, pushed, emitted, stale, proxy_vars, env_vars>>
         ELSE IF pull_panics(a)
         THEN Panic("pull", NoArg)
         ELSE /\ arbiter' = <<[pull(a) EXCEPT !.pc = "send"]>>
              /\ stale' = FALSE
              /\ last' = Op("pull",
                            [ both |-> /\ a.queues[Audio] # <<>>
                                       /\ a.queues[Incoming] # <<>>
                                       /\ in_transit_sum(a) < a.max_buf_count,
                              packet |-> pull(a).packet[1] ])
              /\ UNCHANGED <<panicked, call_vars, setup_sent, pushed, emitted, proxy_vars, env_vars>>

\* Arbiter::thread_loop, mutex released: sink.out_iso(&packet).
ThreadSend ==
    /\ ~panicked /\ arbiter # <<>> /\ arbiter[1].pc = "send"
    /\ LET a == arbiter[1]
           packet == a.packet[1]
       IN /\ arbiter' = <<[a EXCEPT !.pc = "lock", !.packet = <<>>]>>
          /\ emitted' = [emitted EXCEPT ![packet.origin][packet.handle] = packet.id]
          /\ stale' = FALSE
          /\ last' = Op("out_iso",
                        [ packet |-> packet,
                          stale |-> stale,
                          previous |-> emitted[packet.origin][packet.handle] ])
          /\ UNCHANGED <<panicked, call_vars, setup_sent, pushed, proxy_vars, env_vars>>

\* Condvar::wait may return without a notification.
SpuriousWakeup ==
    /\ ~panicked /\ arbiter # <<>> /\ arbiter[1].pc = "wait"
    /\ arbiter' = <<[arbiter[1] EXCEPT !.pc = "lock"]>>
    /\ last' = Op("wakeup", NoArg)
    /\ UNCHANGED <<panicked, call_vars, setup_sent, pushed, emitted, stale, proxy_vars, env_vars>>

\* ------------------------------------------- specification of the arbiter

GhostInit ==
    /\ panicked = FALSE
    /\ Fresh
    /\ last = Op("new", NoArg)

\* An arbiter as Arbiter::new leaves it, driven through its public methods.
InitArbiter ==
    /\ \E len \in BufLens, count \in BufCounts : arbiter = <<Arbiter_new(len, count)>>
    /\ GhostInit

NextArbiter ==
    \/ AddConnection
    \/ RemoveConnection
    \/ PushAudio
    \/ PushIncoming
    \/ SetCompleted
    \/ ThreadLock
    \/ ThreadSend
    \/ SpuriousWakeup

SpecArbiter == InitArbiter /\ [][NextArbiter]_vars

\* ------------------------------------------------- proxy: what it is given

\* What a handler was given and what it handed to the next module.
Call(kind, data, fwd) == [op |-> kind, arg |-> [data |-> data, fwd |-> fwd]]
\* A handler that hands on the very bytes it was given: the direction is kept.
Pass(kind, data) == Op("pass", kind)
\* The same, for the commands and events the proxy keeps something of: what
\* it was given is recorded as well.
PassData(kind, data) == [op |-> "pass", arg |-> kind, data |-> data]
\* The same, for a command that overwrites a record: the handles of the
\* record it replaced are recorded as well, none if there was no record.
PassReplaced(kind, data, replaced) ==
    [op |-> "pass", arg |-> kind, data |-> data, replaced |-> replaced]

CisParams == [max_sdu_c_to_p |-> 120, max_sdu_p_to_c |-> 120]
LeSetCigParametersCmds ==
    [ kind : {"LeSetCigParameters"}, cig_id : CigIds,
      sdu_interval_c_to_p : SduIntervals, sdu_interval_p_to_c : SduIntervals,
      cis : {<<CisParams>>} ]
LeCreateBigCmds ==
    [ kind : {"LeCreateBig"}, big_handle : BigHandles,
      sdu_interval : SduIntervals, max_sdu : {120} ]
LeSetupIsoDataPathCmds ==
    [ kind : {"LeSetupIsoDataPath"}, connection_handle : ProxyHandles,
      data_path_direction : {"Input", "Output"},
      data_path_id : {0, DATA_PATH_ID_SOFTWARE},
      codec_id : {[coding_format |-> "Lc3", company_id |-> 0, vendor_id |-> 0]},
      controller_delay : {0},
      codec_configuration : {<<2>>},
      trailing : {0, 1} ]
OtherCmds == [kind : {"Reset", "LeReadBufferSizeV2", "Unknown", "Malformed"}]

ResetCompletes == [kind : {"Reset"}, status : Statuses]
LeReadBufferSizeV2Completes ==
    [ kind : {"LeReadBufferSizeV2"}, status : Statuses,
      iso_data_packet_length : BufLens,
      total_num_iso_data_packets : {MaxBufCount} ]
LeSetCigParametersCompletes ==
    [ kind : {"LeSetCigParametersComplete"}, status : Statuses, cig_id : CigIds,
      connection_handles : HandleLists ]
LeRemoveCigCompletes == [kind : {"LeRemoveCig"}, status : Statuses, cig_id : CigIds]
LeIsoDataPathCompletes ==
    [ kind : {"LeSetupIsoDataPath", "LeRemoveIsoDataPath"}, status : Statuses,
      connection_handle : ProxyHandles ]
LeCisEstablisheds ==
    [ kind : {"LeCisEstablished"}, status : Statuses, connection_handle : ProxyHandles,
      ft_c_to_p : {1}, ft_p_to_c : {1}, iso_interval : IsoIntervals ]
DisconnectionCompletes ==
    [ kind : {"DisconnectionComplete"}, status : Statuses,
      connection_handle : ProxyHandles ]
LeCreateBigCompletes ==
    [ kind : {"LeCreateBigComplete"}, status : Statuses, big_handle : BigHandles,
      irc : {2}, iso_interval : IsoIntervals, bis_handles : HandleLists ]
LeTerminateBigCompletes ==
    [kind : {"LeTerminateBigComplete"}, big_handle : BigHandles, reason : {22}]
OtherEvts == [kind : {"CommandStatus", "Unknown", "Malformed"}]

\* The entries the controller may report: for an ISO handle, no more
\* packets than it has received and not yet reported.
NocpItemsOf(handles) ==
    { item \in [ connection_handle : handles \cup OtherHandles,
                 num_completed_packets : 1..MaxAck ] :
        IF item.connection_handle \in handles
        THEN item.num_completed_packets <= ctrl[item.connection_handle]
        ELSE item.num_completed_packets = MaxAck }
NocpItems == NocpItemsOf(ProxyHandles)
NocpListsOf(handles) ==
    {<<>>} \cup { <<i>> : i \in NocpItemsOf(handles) }
           \cup { p \in { <<i, j>> : i \in NocpItemsOf(handles), j \in NocpItemsOf(handles) } :
                    p[1].connection_handle # p[2].connection_handle }
NocpLists == NocpListsOf(ProxyHandles)
NumberOfCompletedPacketsEvtsOf(handles) ==
    [kind : {"NumberOfCompletedPackets"}, handles : NocpListsOf(handles), trailing : {0, 1}]
NumberOfCompletedPacketsEvts == NumberOfCompletedPacketsEvtsOf(ProxyHandles)

\* The completed packets an entry list reports for a handle.
RECURSIVE nocp_count(_, _)
nocp_count(handles, h) ==
    IF handles = <<>> THEN 0
    ELSE (IF Head(handles).connection_handle = h
          THEN Head(handles).num_completed_packets ELSE 0)
         + nocp_count(Tail(handles), h)

\* The controller answers its commands in the order it got them: the data
\* path id of the oldest LeSetupIsoDataPath command it has not answered yet,
\* once it is sent the command c.
setup_sent_after(c) ==
    [setup_sent EXCEPT ![c.connection_handle] =
        IF @ = <<>> THEN <<c.data_path_id>> ELSE @]

\* What the controller holds and what the stack is owed once the sink got
\* the packets pkts.
ctrl_after(pkts) ==
    [h \in Handles |->
       ctrl[h] + (IF pkts # <<>> /\ pkts[1].handle = h /\ h \in DOMAIN stream
                  THEN 1 ELSE 0)]
stack_owed_after(pkts) ==
    [h \in Handles |->
       stack_owed[h] + (IF pkts # <<>> /\ pkts[1].handle = h /\ pkts[1].origin = Incoming
                        THEN 1 ELSE 0)]

\* ------------------------------------------------------- proxy: out_cmd

\* out_cmd, Command::LeSetCigParameters: record the CIG, forward the command.
OutCmd_LeSetCigParametersOf(cmds) ==
    /\ ~panicked
    /\ \E c \in cmds :
         /\ cig' = MapPut(cig, c.cig_id, CigParameters_new(c))
         /\ last' = PassReplaced("out_cmd", c,
                                 IF c.cig_id \in DOMAIN cig
                                 THEN cis_handles(cig[c.cig_id]) ELSE <<>>)
    /\ UNCHANGED <<big, stream, service, arbiter, panicked, call_vars, setup_sent, env_vars,
                   pushed, emitted, stale>>

OutCmd_LeSetCigParameters == OutCmd_LeSetCigParametersOf(LeSetCigParametersCmds)

\* out_cmd, Command::LeCreateBig: record the BIG, forward the command.
OutCmd_LeCreateBigOf(cmds) ==
    /\ ~panicked
    /\ \E c \in cmds :
         /\ big' = MapPut(big, c.big_handle, BigParameters_new(c))
         /\ last' = PassData("out_cmd", c)
    /\ UNCHANGED <<cig, stream, service, arbiter, panicked, call_vars, setup_sent, env_vars,
                   pushed, emitted, stale>>

OutCmd_LeCreateBig == OutCmd_LeCreateBigOf(LeCreateBigCmds)

\* out_cmd, Command::LeSetupIsoDataPath: with the offload id, the stream
\* becomes Enabling and the rewritten command is forwarded instead.
OutCmd_LeSetupIsoDataPathOf(cmds) ==
    /\ ~panicked
    /\ \E c \in cmds :
         IF c.data_path_id # DATA_PATH_ID_SOFTWARE
         THEN /\ last' = Pass("out_cmd", c)
              /\ setup_sent' = setup_sent_after(c)
              /\ UNCHANGED <<proxy_vars, arbiter, panicked, call_vars, env_vars,
                             pushed, emitted, stale>>
         ELSE IF c.data_path_direction # "Input"
         THEN Panic("out_cmd", c.kind)
         ELSE IF c.connection_handle \notin DOMAIN stream
         THEN Panic("out_cmd", c.kind)
         ELSE /\ stream' = [stream EXCEPT ![c.connection_handle].state = "Enabling"]
              /\ last' = Call("out_cmd", c, <<LeSetupIsoDataPath_rewritten(c)>>)
              /\ setup_sent' = setup_sent_after(c)
              /\ UNCHANGED <<big, cig, service, arbiter, panicked, call_vars, env_vars,
                             pushed, emitted, stale>>

OutCmd_LeSetupIsoDataPath == OutCmd_LeSetupIsoDataPathOf(LeSetupIsoDataPathCmds)

\* out_cmd, any other command or bytes that parse as none: forwarded as is.
OutCmd_Other ==
    /\ ~panicked
    /\ \E c \in OtherCmds : last' = Pass("out_cmd", c)
    /\ UNCHANGED <<proxy_vars, arbiter, panicked, call_vars, setup_sent, env_vars, pushed, emitted, stale>>

\* -------------------------------------------------------- proxy: in_evt

\* in_evt, CommandComplete(Reset): on success the State is the default one,
\* so the proxy's Arc<Arbiter> is dropped: the arbiter is dropped with it
\* unless a sendPacket call holds the Arc it has upgraded, which then owns
\* the arbiter.  The controller has reset as well, and the producers start
\* over.
InEvt_ResetComplete ==
    /\ ~panicked
    /\ \E e \in ResetCompletes :
         /\ last' = Call("in_evt", e, <<e>>)
         /\ IF e.status = "Success"
            THEN /\ big' = EmptyMap /\ cig' = EmptyMap /\ stream' = EmptyMap
                 /\ arbiter' = <<>>
                 /\ upgraded' = moved_to_upgraded(arbiter)
                 /\ ctrl' = NoCounts /\ stack_owed' = NoCounts
                 /\ pushed' = NoPushed
                 /\ setup_sent' = NoSetup
                 /\ UNCHANGED <<service, started>>
            ELSE UNCHANGED <<proxy_vars, arbiter, upgraded, env_vars, pushed, setup_sent>>
    /\ UNCHANGED <<panicked, hal, intake, emitted, stale>>

\* in_evt, CommandComplete(LeReadBufferSizeV2): on success a new arbiter
\* takes the place of the one held, and the service is reset with it.
\* Service::reset takes the service's mutex, which a sendPacket call in
\* progress holds until it returns.
InEvt_LeReadBufferSizeV2Complete ==
    /\ ~panicked
    /\ \E e \in {x \in LeReadBufferSizeV2Completes :
                   x.status = "Success" => upgraded = <<>>} :
         /\ last' = Pass("in_evt", e)
         /\ IF e.status = "Success"
            THEN /\ arbiter' = <<Arbiter_new(e.iso_data_packet_length,
                                             e.total_num_iso_data_packets)>>
                 /\ service' = Service_reset(service)
                 /\ ctrl' = ctrl_after(drop_delivers(arbiter))
                 /\ stack_owed' = stack_owed_after(drop_delivers(arbiter))
                 /\ UNCHANGED <<big, cig, stream, started>>
            ELSE UNCHANGED <<proxy_vars, arbiter, env_vars>>
    /\ UNCHANGED <<panicked, call_vars, setup_sent, pushed, emitted, stale>>

\* in_evt, CommandComplete(LeSetCigParameters): on success the handles of
\* the recorded CIG are filled in; the CIG must exist, the lengths match.
\* Any other status takes no arm: the event is handed on, its return
\* parameters are not looked at.
InEvt_LeSetCigParametersCompleteOf(events) ==
    /\ ~panicked
    /\ \E e \in events :
         IF e.status # "Success"
         THEN /\ last' = PassData("in_evt", [ kind |-> e.kind, status |-> e.status,
                                              cig_id |-> e.cig_id ])
              /\ UNCHANGED <<proxy_vars, arbiter, panicked, call_vars, setup_sent, env_vars,
                             pushed, emitted, stale>>
         ELSE IF e.cig_id \notin DOMAIN cig
         THEN Panic("in_evt", e.kind)
         ELSE IF Len(cig[e.cig_id].cis) # Len(e.connection_handles)
         THEN Panic("in_evt", e.kind)
         ELSE /\ cig' = [cig EXCEPT ![e.cig_id].cis =
                           [i \in 1..Len(@) |->
                              [@[i] EXCEPT !.handle = e.connection_handles[i]]]]
              /\ last' = PassData("in_evt", e)
              /\ UNCHANGED <<big, stream, service, arbiter, panicked, call_vars, setup_sent, env_vars,
                             pushed, emitted, stale>>

InEvt_LeSetCigParametersComplete == InEvt_LeSetCigParametersCompleteOf(LeSetCigParametersCompletes)

\* in_evt, CommandComplete(LeRemoveCig): on success the CIG is forgotten.
InEvt_LeRemoveCigComplete ==
    /\ ~panicked
    /\ \E e \in LeRemoveCigCompletes :
         /\ last' = Pass("in_evt", e)
         /\ cig' = IF e.status = "Success" THEN MapDel(cig, e.cig_id) ELSE cig
    /\ UNCHANGED <<big, stream, service, arbiter, panicked, call_vars, setup_sent, env_vars,
                   pushed, emitted, stale>>

\* in_evt, CommandComplete(LeSetupIsoDataPath), any status: the stream is
\* Enabled if it was Enabling and the status is Success, else Disabled; an
\* Enabled stream is started at the service.
InEvt_LeSetupIsoDataPathCompleteOf(events) ==
    /\ ~panicked
    /\ \E e \in events :
         LET h == e.connection_handle IN
         IF h \notin DOMAIN stream
         THEN Panic("in_evt", e.kind)
         ELSE /\ IF stream[h].state = "Enabling" /\ e.status = "Success"
                 THEN /\ stream' = [stream EXCEPT ![h].state = "Enabled"]
                      /\ service' = Service_start_stream(
                                        service, h, StreamConfiguration(stream[h]))
                      /\ started' = started \cup {h}
                      /\ last' = Op("in_evt", [data |-> e, fwd |-> <<e>>, start |-> <<h>>,
                                               answers |-> setup_sent[h]])
                 ELSE /\ stream' = [stream EXCEPT ![h].state = "Disabled"]
                      /\ last' = Op("in_evt", [data |-> e, fwd |-> <<e>>, start |-> <<>>,
                                               answers |-> setup_sent[h]])
                      /\ UNCHANGED <<service, started>>
              /\ setup_sent' = [setup_sent EXCEPT ![h] = <<>>]
              /\ UNCHANGED <<big, cig, arbiter, panicked, call_vars, ctrl, stack_owed,
                             pushed, emitted, stale>>

InEvt_LeSetupIsoDataPathComplete == InEvt_LeSetupIsoDataPathCompleteOf({x \in LeIsoDataPathCompletes : x.kind = "LeSetupIsoDataPath"})

\* in_evt, CommandComplete(LeRemoveIsoDataPath): on success an Enabled
\* stream is stopped at the service, and the stream is Disabled.
InEvt_LeRemoveIsoDataPathComplete ==
    /\ ~panicked
    /\ \E e \in {x \in LeIsoDataPathCompletes : x.kind = "LeRemoveIsoDataPath"} :
         LET h == e.connection_handle IN
         IF e.status # "Success"
         THEN /\ last' = Pass("in_evt", e)
              /\ UNCHANGED <<proxy_vars, arbiter, panicked, call_vars, setup_sent, env_vars,
                             pushed, emitted, stale>>
         ELSE IF h \notin DOMAIN stream
         THEN Panic("in_evt", e.kind)
         ELSE /\ last' = [PassData("in_evt", e) EXCEPT
                             !.arg = [dir |-> "in_evt",
                                      stop |-> IF stream[h].state = "Enabled"
                                               THEN <<h>> ELSE <<>>]]
              /\ IF stream[h].state = "Enabled"
                 THEN /\ service' = Service_stop_stream(service, h)
                      /\ started' = started \ {h}
                 ELSE UNCHANGED <<service, started>>
              /\ stream' = [stream EXCEPT ![h].state = "Disabled"]
              /\ UNCHANGED <<big, cig, arbiter, panicked, call_vars, setup_sent, ctrl, stack_owed,
                             pushed, emitted, stale>>

\* in_evt, LeCisEstablished with Success: the stream of the CIS is built
\* from the CIG that lists its handle and inserted; a handle that had no
\* stream is added to the arbiter.
InEvt_LeCisEstablishedOf(events) ==
    /\ ~panicked
    /\ \E e \in events :
         LET h == e.connection_handle
             found == {id \in DOMAIN cig : cig_has(cig[id], h)}
         IN
         IF e.status # "Success"
         THEN /\ last' = Pass("in_evt", e)
              /\ UNCHANGED <<proxy_vars, arbiter, panicked, call_vars, setup_sent, env_vars,
                             pushed, emitted, stale>>
         ELSE IF found = {}
         THEN Panic("in_evt", e.kind)
         ELSE \E id \in found :
              IF new_cis_panics(cig[id], e)
              THEN Panic("in_evt", e.kind)
              ELSE IF h \in DOMAIN stream
              THEN /\ stream' = MapPut(stream, h, new_cis(cig[id], e))
                   /\ last' = PassData("in_evt", e)
                   /\ UNCHANGED <<big, cig, service, arbiter, panicked, call_vars, setup_sent, env_vars,
                                  pushed, emitted, stale>>
              ELSE IF arbiter = <<>>
              THEN Panic("in_evt", e.kind)
              ELSE IF add_connection_panics(arbiter[1], h)
              THEN Panic("in_evt", e.kind)
              ELSE /\ stream' = MapPut(stream, h, new_cis(cig[id], e))
                   /\ arbiter' = <<add_connection(arbiter[1], h)>>
                   /\ last' = PassData("in_evt", e)
                   /\ UNCHANGED <<big, cig, service, panicked, call_vars, setup_sent, env_vars,
                                  pushed, emitted, stale>>

InEvt_LeCisEstablished == InEvt_LeCisEstablishedOf(LeCisEstablisheds)

\* in_evt, DisconnectionComplete with Success: a stream of the handle is
\* removed from the map and the handle from the arbiter.  The controller
\* has flushed what it held for the connection.
InEvt_DisconnectionCompleteOf(events) ==
    /\ ~panicked
    /\ \E e \in events :
         LET h == e.connection_handle IN
         IF e.status # "Success" \/ h \notin DOMAIN stream
         THEN /\ last' = Op("in_evt", [data |-> e, fwd |-> <<e>>, freed |-> 0])
              /\ UNCHANGED <<proxy_vars, arbiter, panicked, call_vars, setup_sent, env_vars,
                             pushed, emitted, stale>>
         ELSE IF arbiter = <<>>
         THEN Panic("in_evt", e.kind)
         ELSE /\ stream' = MapDel(stream, h)
              /\ arbiter' = <<remove_connection(arbiter[1], h)>>
              /\ ctrl' = [ctrl EXCEPT ![h] = 0]
              /\ stack_owed' = [stack_owed EXCEPT ![h] = 0]
              /\ last' = Op("in_evt", [data |-> e, fwd |-> <<e>>,
                                       freed |-> in_transit_sum(arbiter[1])
                                                 - in_transit_sum(arbiter'[1])])
              /\ UNCHANGED <<big, cig, service, panicked, call_vars, setup_sent, started,
                             pushed, emitted, stale>>

InEvt_DisconnectionComplete ==
    InEvt_DisconnectionCompleteOf(DisconnectionCompletes)

\* LeCreateBigComplete, the loop over bis_handles: each handle gets a clone
\* of the stream; one that had no stream is added to the arbiter.
RECURSIVE create_big_loop(_, _, _, _)
create_big_loop(streams, arb, bis, handles) ==
    IF handles = <<>>
    THEN [stream |-> streams, arbiter |-> arb, panics |-> FALSE]
    ELSE LET h == Head(handles) IN
         IF h \in DOMAIN streams
         THEN create_big_loop(MapPut(streams, h, bis), arb, bis, Tail(handles))
         ELSE IF arb = <<>>
         THEN [stream |-> streams, arbiter |-> arb, panics |-> TRUE]
         ELSE IF add_connection_panics(arb[1], h)
         THEN [stream |-> streams, arbiter |-> arb, panics |-> TRUE]
         ELSE create_big_loop(MapPut(streams, h, bis),
                              <<add_connection(arb[1], h)>>, bis, Tail(handles))

\* in_evt, LeCreateBigComplete with Success: the BIG must exist; its
\* handles are recorded and a stream is inserted for each.
InEvt_LeCreateBigCompleteOf(events) ==
    /\ ~panicked
    /\ \E e \in events :
         IF e.status # "Success"
         THEN /\ last' = Pass("in_evt", e)
              /\ UNCHANGED <<proxy_vars, arbiter, panicked, call_vars, setup_sent, env_vars,
                             pushed, emitted, stale>>
         ELSE IF e.big_handle \notin DOMAIN big
         THEN Panic("in_evt", e.kind)
         ELSE IF new_bis_panics(big[e.big_handle], e)
         THEN Panic("in_evt", e.kind)
         ELSE LET r == create_big_loop(stream, arbiter,
                                       new_bis(big[e.big_handle], e), e.bis_handles)
              IN IF r.panics
                 THEN Panic("in_evt", e.kind)
                 ELSE /\ big' = [big EXCEPT ![e.big_handle].bis_handles = e.bis_handles]
                      /\ stream' = r.stream
                      /\ arbiter' = r.arbiter
                      /\ last' = PassData("in_evt", e)
                      /\ UNCHANGED <<cig, service, panicked, call_vars, setup_sent, env_vars,
                                     pushed, emitted, stale>>

InEvt_LeCreateBigComplete == InEvt_LeCreateBigCompleteOf(LeCreateBigCompletes)

\* LeTerminateBigComplete, the loop over the handles of the removed BIG.
RECURSIVE terminate_big_loop(_, _, _)
terminate_big_loop(streams, arb, handles) ==
    IF handles = <<>>
    THEN [stream |-> streams, arbiter |-> arb, panics |-> FALSE]
    ELSE IF arb = <<>>
    THEN [stream |-> streams, arbiter |-> arb, panics |-> TRUE]
    ELSE terminate_big_loop(MapDel(streams, Head(handles)),
                            <<remove_connection(arb[1], Head(handles))>>,
                            Tail(handles))

\* in_evt, LeTerminateBigComplete: the BIG must exist; it is removed, and
\* its handles from the stream map and from the arbiter.
InEvt_LeTerminateBigComplete ==
    /\ ~panicked
    /\ \E e \in LeTerminateBigCompletes :
         IF e.big_handle \notin DOMAIN big
         THEN Panic("in_evt", e.kind)
         ELSE LET handles == big[e.big_handle].bis_handles
                  r == terminate_big_loop(stream, arbiter, handles)
                  gone == {handles[i] : i \in 1..Len(handles)}
              IN IF r.panics
                 THEN Panic("in_evt", e.kind)
                 ELSE /\ big' = MapDel(big, e.big_handle)
                      /\ stream' = r.stream
                      /\ arbiter' = r.arbiter
                      /\ ctrl' = [h \in Handles |-> IF h \in gone THEN 0 ELSE ctrl[h]]
                      /\ stack_owed' =
                           [h \in Handles |-> IF h \in gone THEN 0 ELSE stack_owed[h]]
                      /\ last' = Pass("in_evt", e)
                      /\ UNCHANGED <<cig, service, panicked, call_vars, setup_sent, started,
                                     pushed, emitted, stale>>

\* in_evt, NumberOfCompletedPackets: without an arbiter the event is
\* forwarded as received; with one, every entry is credited to the arbiter
\* and the entries that are not of an Enabled stream are forwarded in a
\* rewritten event, if there is any.
InEvt_NumberOfCompletedPacketsOf(handles) ==
    /\ ~panicked
    /\ \E e \in NumberOfCompletedPacketsEvtsOf(handles) :
         LET kept == nocp_stack_handles(stream, e.handles) IN
         IF arbiter = <<>>
         THEN /\ last' = Call("in_evt", e, <<e>>)
              /\ ctrl' = [h \in Handles |-> ctrl[h] - nocp_count(e.handles, h)]
              /\ stack_owed' =
                   [h \in Handles |-> stack_owed[h] - nocp_count(e.handles, h)]
              /\ UNCHANGED <<proxy_vars, arbiter, panicked, call_vars, setup_sent, started,
                             pushed, emitted, stale>>
         ELSE IF nocp_set_completed_panics(arbiter[1], e.handles)
         THEN Panic("in_evt", e.kind)
         ELSE /\ arbiter' = <<nocp_set_completed(arbiter[1], e.handles)>>
              /\ last' = Call("in_evt", e,
                              IF kept # <<>>
                              THEN <<NumberOfCompletedPackets_to_bytes(kept)>>
                              ELSE <<>>)
              /\ ctrl' = [h \in Handles |-> ctrl[h] - nocp_count(e.handles, h)]
              /\ stack_owed' = [h \in Handles |-> stack_owed[h] - nocp_count(kept, h)]
              /\ UNCHANGED <<proxy_vars, panicked, call_vars, setup_sent, started,
                             pushed, emitted, stale>>

InEvt_NumberOfCompletedPackets == InEvt_NumberOfCompletedPacketsOf(ProxyHandles)

\* in_evt, any other event or bytes that parse as none: forwarded as is.
InEvt_Other ==
    /\ ~panicked
    /\ \E e \in OtherEvts : last' = Pass("in_evt", e)
    /\ UNCHANGED <<proxy_vars, arbiter, panicked, call_vars, setup_sent, env_vars, pushed, emitted, stale>>

\* ---------------------------------------- proxy: the two producers' pushes

\* out_iso: the arbiter is unwrapped, then the parsed packet, and the packet
\* is pushed.
OutIsoOf(handles, max_push) ==
    /\ ~panicked /\ pushed[Audio] + pushed[Incoming] < max_push
    /\ \E data \in {d \in IsoBytes : d.connection_handle \in handles} :
         IF arbiter = <<>>
         THEN Panic("out_iso", [unwrap |-> "arbiter"])
         ELSE IF IsoData_from_bytes(data) = <<>>
         THEN Panic("out_iso", [unwrap |-> "from_bytes"])
         ELSE DoPush(Incoming, IsoData_from_bytes(data)[1])

OutIso == OutIsoOf(ProxyHandles, MaxProxyPush)

\* The handle and seqnum arguments (i32) of sendPacket: in range, above the
\* 12 bits of a connection handle, above u16, negative.
SendPacketHandles == ProxyHandles \cup {MaxConnectionHandle + 1, U16Max + 1, -1}
SendPacketSeqnums == {0, U16Max + 1}

\* u16::try_from(v: i32)
try_into_u16(v) == IF v \in 0..U16Max THEN <<v>> ELSE <<>>

\* IHciProxy::sendPacket: ILLEGAL_ARGUMENT when an argument does not convert
\* to u16; else pushed if the Weak<Arbiter> upgrades, else trashed.
SendPacket ==
    /\ ~panicked /\ pushed[Audio] + pushed[Incoming] < MaxProxyPush
    /\ \E handle \in SendPacketHandles, seqnum \in SendPacketSeqnums,
          payload_len \in 0..MaxPayload :
         IF try_into_u16(handle) = <<>> \/ try_into_u16(seqnum) = <<>>
         THEN /\ last' = Op("sendPacket", [result |-> "ILLEGAL_ARGUMENT"])
              /\ UNCHANGED <<proxy_vars, arbiter, panicked, call_vars, setup_sent, env_vars,
                             pushed, emitted, stale>>
         ELSE IF arbiter = <<>>
         THEN /\ last' = Op("sendPacket", [result |-> "Ok"])
              /\ UNCHANGED <<proxy_vars, arbiter, panicked, call_vars, setup_sent, env_vars,
                             pushed, emitted, stale>>
         ELSE DoPush(Audio, IsoData_new(try_into_u16(handle)[1], payload_len))

\* Arbiter::thread_loop, mutex released: sink.out_iso(&packet), the sink
\* being the controller.
ThreadSendToController ==
    /\ ~panicked /\ arbiter # <<>> /\ arbiter[1].pc = "send"
    /\ arbiter' = <<[arbiter[1] EXCEPT !.pc = "lock", !.packet = <<>>]>>
    /\ ctrl' = ctrl_after(arbiter[1].packet)
    /\ stack_owed' = stack_owed_after(arbiter[1].packet)
    /\ last' = Op("out_iso", [packet |-> arbiter[1].packet[1], dropped |-> FALSE])
    /\ UNCHANGED <<proxy_vars, panicked, call_vars, setup_sent, started, pushed, emitted, stale>>

\* ---------------------------------------------- specification of the proxy

\* LeAudioModule::new: the default State, no arbiter.
Init ==
    /\ arbiter = <<>>
    /\ GhostInit

Next ==
    \/ OutCmd_LeSetCigParameters
    \/ OutCmd_LeCreateBig
    \/ OutCmd_LeSetupIsoDataPath
    \/ OutCmd_Other
    \/ InEvt_ResetComplete
    \/ InEvt_LeReadBufferSizeV2Complete
    \/ InEvt_LeSetCigParametersComplete
    \/ InEvt_LeRemoveCigComplete
    \/ InEvt_LeSetupIsoDataPathComplete
    \/ InEvt_LeRemoveIsoDataPathComplete
    \/ InEvt_LeCisEstablished
    \/ InEvt_DisconnectionComplete
    \/ InEvt_LeCreateBigComplete
    \/ InEvt_LeTerminateBigComplete
    \/ InEvt_NumberOfCompletedPackets
    \/ InEvt_Other
    \/ OutIso
    \/ SendPacket
    \/ ThreadLock
    \/ ThreadSendToController

Spec == Init /\ [][Next]_vars

\* ------------------ the session: two streams, sendPacket step by step

\* IHciProxy::sendPacket, first step: under the service's mutex the
\* Weak<Arbiter> is upgraded; when it is dead the packet is trashed.
SendPacketUpgrade ==
    /\ ~panicked /\ upgraded = <<>>
    /\ pushed[Audio] + pushed[Incoming] < MaxPush
    /\ IF arbiter = <<>>
       THEN /\ last' = Op("sendPacket", NoArg)
            /\ UNCHANGED upgraded
       ELSE /\ last' = Op("upgrade", NoArg)
            /\ upgraded' = <<Upgraded("shared", <<>>, FALSE)>>
    /\ UNCHANGED <<proxy_vars, arbiter, panicked, hal, intake, setup_sent, env_vars,
                   pushed, emitted, stale>>

\* IHciProxy::sendPacket, second step: push_audio on the upgraded arbiter,
\* be it still the proxy's or the call's own.
SendPacketPush ==
    /\ ~panicked /\ upgraded # <<>> /\ ~upgraded[1].pushed
    /\ \E handle \in Handles, payload_len \in 0..MaxPayload :
         LET iso_data == IsoData_new(handle, payload_len)
             own == upgraded[1].arc = "own"
             a == IF own THEN upgraded[1].arbiter[1] ELSE arbiter[1]
             b == push(a, Audio, iso_data, pushed[Audio] + 1)
         IN IF ~push_size_ok(a, iso_data)
            THEN Panic("push", [origin |-> Audio, handle |-> handle, fits |-> FALSE])
            ELSE /\ arbiter' = IF own THEN arbiter ELSE <<b>>
                 /\ upgraded' = <<[upgraded[1] EXCEPT
                                     !.pushed = TRUE,
                                     !.arbiter = IF own THEN <<b>> ELSE @]>>
                 /\ pushed' = [pushed EXCEPT ![Audio] =
                                 IF handle \in DOMAIN a.in_transit THEN @ + 1 ELSE @]
                 /\ last' = Op("push", [origin |-> Audio, handle |-> handle, fits |-> TRUE])
                 /\ UNCHANGED <<proxy_vars, panicked, hal, intake, setup_sent, env_vars,
                                emitted, stale>>

\* IHciProxy::sendPacket, last step: the upgraded Arc goes out of scope.  If
\* it is the last one the arbiter is dropped here: halt, notify, join.
SendPacketRelease ==
    /\ ~panicked /\ upgraded # <<>> /\ upgraded[1].pushed
    /\ upgraded' = <<>>
    /\ ctrl' = ctrl_after(drop_delivers(upgraded[1].arbiter))
    /\ stack_owed' = stack_owed_after(drop_delivers(upgraded[1].arbiter))
    /\ last' = Op("sendPacket", NoArg)
    /\ UNCHANGED <<proxy_vars, arbiter, panicked, hal, intake, setup_sent, started,
                   pushed, emitted, stale>>

\* Arbiter::thread_loop of an arbiter the proxy has dropped and a sendPacket
\* call still holds, under the mutex.
UpgradedThreadLock ==
    /\ ~panicked /\ upgraded # <<>> /\ upgraded[1].arc = "own"
    /\ upgraded[1].arbiter[1].pc = "lock"
    /\ LET a == upgraded[1].arbiter[1] IN
         IF pull_index(a) = <<>>
         THEN /\ upgraded' = <<[upgraded[1] EXCEPT !.arbiter = <<[a EXCEPT !.pc = "wait"]>>]>>
              /\ last' = Op("thread_wait", NoArg)
              /\ UNCHANGED <<proxy_vars, arbiter, panicked, hal, intake, setup_sent, env_vars,
                             pushed, emitted, stale>>
         ELSE IF pull_panics(a)
         THEN Panic("pull", NoArg)
         ELSE /\ upgraded' = <<[upgraded[1] EXCEPT
                                  !.arbiter = <<[pull(a) EXCEPT !.pc = "send"]>>,
                                  !.pulled = TRUE]>>
              /\ last' = Op("pull", [both |-> FALSE, packet |-> pull(a).packet[1]])
              /\ UNCHANGED <<proxy_vars, arbiter, panicked, hal, intake, setup_sent, env_vars,
                             pushed, emitted, stale>>

\* Arbiter::thread_loop of that arbiter, mutex released: sink.out_iso.  The
\* packet is one it took from its queues after the proxy had dropped it, or
\* the one it was holding then.
UpgradedThreadSend ==
    /\ ~panicked /\ upgraded # <<>> /\ upgraded[1].arc = "own"
    /\ upgraded[1].arbiter[1].pc = "send"
    /\ LET a == upgraded[1].arbiter[1] IN
         /\ upgraded' = <<[upgraded[1] EXCEPT
                             !.arbiter = <<[a EXCEPT !.pc = "lock", !.packet = <<>>]>>,
                             !.pulled = FALSE]>>
         /\ ctrl' = ctrl_after(a.packet)
         /\ stack_owed' = stack_owed_after(a.packet)
         /\ last' = Op("out_iso", [packet |-> a.packet[1], dropped |-> upgraded[1].pulled])
    /\ UNCHANGED <<proxy_vars, arbiter, panicked, hal, intake, setup_sent, started,
                   pushed, emitted, stale>>

\* The session the runs start in: LeReadBufferSizeV2 has completed, a CIG of
\* two CIS has been set and the controller has returned a handle for each,
\* and both CIS are established.
SessionCig ==
    LET g == CigParameters_new(
                 [ cig_id |-> 1, sdu_interval_c_to_p |-> 10000,
                   sdu_interval_p_to_c |-> 10000, cis |-> <<CisParams, CisParams>> ])
    IN [g EXCEPT !.cis = [i \in 1..Len(@) |-> [@[i] EXCEPT !.handle = i]]]
SessionCisEstablished(h) ==
    [ kind |-> "LeCisEstablished", status |-> "Success", connection_handle |-> h,
      ft_c_to_p |-> 1, ft_p_to_c |-> 1, iso_interval |-> 16 ]
SessionDisconnections ==
    [kind : {"DisconnectionComplete"}, status : Statuses, connection_handle : Handles]

InitSession ==
    /\ big = EmptyMap
    /\ cig = MapPut(EmptyMap, 1, SessionCig)
    /\ stream = [h \in Handles |-> new_cis(SessionCig, SessionCisEstablished(h))]
    /\ \E len \in BufLens, count \in BufCounts :
         arbiter = <<add_connection(add_connection(Arbiter_new(len, count), 1), 2)>>
    /\ panicked = FALSE
    /\ Idle
    /\ last = Op("new", NoArg)

NextSession ==
    \/ OutIsoOf(Handles, MaxPush)
    \/ SendPacketUpgrade
    \/ SendPacketPush
    \/ SendPacketRelease
    \/ ThreadLock
    \/ ThreadSendToController
    \/ UpgradedThreadLock
    \/ UpgradedThreadSend
    \/ InEvt_DisconnectionCompleteOf(SessionDisconnections)
    \/ InEvt_ResetComplete

\* The sender is a thread of its own: the scheduler lets it run.
SpecSession ==
    /\ InitSession
    /\ [][NextSession]_vars
    /\ WF_vars(ThreadLock)
    /\ WF_vars(ThreadSendToController)

\* ------------------------------------------------ properties of the arbiter

\* C1 (credit bound): in every reachable state of the arbiter, the sum of
\* in_transit over the tracked handles is at most max_buf_count.
CreditBound ==
    arbiter # <<>> => in_transit_sum(arbiter[1]) <= arbiter[1].max_buf_count

\* C1, its case: every credit is in use, a packet is queued, and the sender
\* has scanned the queues and gone to wait.
CreditBoundWitness ==
    /\ arbiter # <<>>
    /\ last.op = "thread_wait"
    /\ in_transit_sum(arbiter[1]) = arbiter[1].max_buf_count
    /\ \E o \in Origins : arbiter[1].queues[o] # <<>>

\* C5 (priority): whenever the sender selects a packet while both queues are
\* non-empty and the total in transit is below max_buf_count, the packet it
\* selects is the head of the Audio queue.
Priority ==
    [][ ( /\ arbiter # <<>> /\ arbiter[1].pc = "lock"
          /\ arbiter[1].queues[Audio] # <<>>
          /\ arbiter[1].queues[Incoming] # <<>>
          /\ in_transit_sum(arbiter[1]) < arbiter[1].max_buf_count
          /\ last'.op = "pull" )
        => /\ last'.arg.packet = Head(arbiter[1].queues[Audio])
           /\ arbiter'[1].packet = <<Head(arbiter[1].queues[Audio])>>
           /\ arbiter'[1].queues[Incoming] = arbiter[1].queues[Incoming] ]_vars

\* C5, its case: the sender has just selected a packet with both queues
\* non-empty and a credit left.
PriorityWitness ==
    last.op = "pull" /\ last.arg.both

\* C6 (FIFO per producer and handle): every packet the sink receives for a
\* producer and a handle was pushed by that producer after the packet the
\* sink received before it for the same producer and handle (packet ids
\* number a producer's pushes), so none comes twice or out of order.
FifoPerProducerHandle ==
    last.op = "out_iso" =>
        /\ last.arg.previous < last.arg.packet.id
        /\ last.arg.packet.id <= pushed[last.arg.packet.origin]

\* C6, its case: the sink receives a second packet of one producer for one
\* handle.
FifoWitness ==
    last.op = "out_iso" /\ last.arg.previous > 0

\* C7 (drop on disconnect): no packet for h reaches the sink once
\* remove_connection(h) has returned, unless it was pushed after h was added
\* again.
DropOnDisconnect ==
    ~(last.op = "out_iso" /\ last.arg.stale)

\* A push, accepted or failed, for a handle the arbiter does not track.
PushUntrackedStep ==
    /\ arbiter # <<>>
    /\ \/ last'.op = "push" /\ last'.arg.handle \notin DOMAIN arbiter[1].in_transit
       \/ /\ last'.op = "panic" /\ last'.arg.in = "push"
          /\ last'.arg.arg.handle \notin DOMAIN arbiter[1].in_transit

\* What a dropped push leaves behind: no failure, the queues, the in_transit
\* counts and what the sink has received are as before.
PushDropped ==
    /\ ~panicked'
    /\ arbiter' # <<>>
    /\ arbiter'[1].queues = arbiter[1].queues
    /\ arbiter'[1].in_transit = arbiter[1].in_transit
    /\ arbiter'[1].packet = arbiter[1].packet
    /\ emitted' = emitted

\* C8 as stated (drop on unknown handle): a push for a handle that is not
\* tracked changes neither queue nor any in_transit count, emits nothing and
\* does not fail.
DropOnUnknownHandleAsStated ==
    [][PushUntrackedStep => PushDropped]_vars

\* C8 (drop on unknown handle), for a packet that passes the size assertion
\* of push: a push for a handle that is not tracked changes neither queue nor
\* any in_transit count, emits nothing and does not fail.
DropOnUnknownHandle ==
    [][(PushUntrackedStep /\ last'.op = "push" /\ last'.arg.fits) => PushDropped]_vars

\* C8, its case: a push for an untracked handle has been accepted.
DropOnUnknownHandleWitness ==
    /\ arbiter # <<>>
    /\ last.op = "push"
    /\ last.arg.fits
    /\ last.arg.handle \notin DOMAIN arbiter[1].in_transit
    /\ \A o \in Origins : \A i \in 1..Len(arbiter[1].queues[o]) :
         arbiter[1].queues[o][i].handle # last.arg.handle

\* -------------------------------------------------- properties of the proxy

\* C2 (host-only completion accounting): for every handle, the completed
\* packets forwarded upstream never exceed the stack-originated packets
\* emitted to the controller for it.
HostOnlyCompletions ==
    \A h \in Handles : stack_owed[h] >= 0

\* The last handler call was in_evt with a NumberOfCompletedPackets event
\* while the proxy held an arbiter.
NocpWithArbiter ==
    /\ last.op = "in_evt"
    /\ last.arg.data.kind = "NumberOfCompletedPackets"
    /\ arbiter # <<>>

\* The entries of that event whose handle is not an Enabled stream.
NocpRetained ==
    SelectSeq(last.arg.data.handles,
              LAMBDA item :
                ~( /\ item.connection_handle \in DOMAIN stream
                   /\ stream[item.connection_handle].state = "Enabled" ))

\* What is forwarded upstream is the retained entries, order and counts
\* unchanged, in one event, or nothing when no entry is retained.
NocpForwardsRetained ==
    /\ NocpRetained = <<>> => last.arg.fwd = <<>>
    /\ NocpRetained # <<>> =>
         /\ Len(last.arg.fwd) = 1
         /\ last.arg.fwd[1].kind = "NumberOfCompletedPackets"
         /\ last.arg.fwd[1].handles = NocpRetained

OffloadSetup ==
    /\ last.op = "out_cmd"
    /\ last.arg.data.kind = "LeSetupIsoDataPath"
    /\ last.arg.data.data_path_id = DATA_PATH_ID_SOFTWARE

\* C4 (offload data-path rewrite): a LeSetupIsoDataPath command with the
\* offload id is forwarded downstream exactly once, with data_path_id 0 and
\* handle, direction, codec id, controller delay and codec configuration
\* unchanged, and the stream of its handle becomes Enabling.
OffloadSetupRewrite ==
    OffloadSetup =>
        LET c == last.arg.data
            f == last.arg.fwd
        IN /\ Len(f) = 1
           /\ f[1].kind = "LeSetupIsoDataPath"
           /\ f[1].data_path_id = 0
           /\ f[1].connection_handle = c.connection_handle
           /\ f[1].data_path_direction = c.data_path_direction
           /\ f[1].codec_id = c.codec_id
           /\ f[1].controller_delay = c.controller_delay
           /\ f[1].codec_configuration = c.codec_configuration
           /\ c.connection_handle \in DOMAIN stream
           /\ stream[c.connection_handle].state = "Enabling"

\* C4, its case: such a command, with bytes after its fields, has been
\* handled for a known stream.
OffloadSetupWitness ==
    /\ OffloadSetup
    /\ last.arg.data.data_path_direction = "Input"
    /\ last.arg.data.trailing = 1
    /\ last.arg.data.connection_handle \in DOMAIN stream

\* C9 (stream lifecycle): for every handle, the stream map holds an Enabled
\* stream iff a stream-start has been emitted to the service with no later
\* stream-stop.
StreamLifecycle ==
    \A h \in Handles :
        (h \in DOMAIN stream /\ stream[h].state = "Enabled") <=> h \in started

\* C10 (tracking): while the proxy holds an arbiter, a handle is a key of
\* the stream map iff the arbiter has an in_transit entry for it.
Tracking ==
    arbiter # <<>> =>
        \A h \in Handles : h \in DOMAIN stream <=> h \in DOMAIN arbiter[1].in_transit

\* C11 (stream-start only for the offload path): a LeSetupIsoDataPath
\* completion that answers a command sent with a data path id other than the
\* offload id never produces a stream-start.
StartOnlyForOffload ==
    ( /\ last.op = "in_evt"
      /\ last.arg.data.kind = "LeSetupIsoDataPath"
      /\ last.arg.answers # <<>>
      /\ last.arg.answers[1] # DATA_PATH_ID_SOFTWARE )
    => last.arg.start = <<>>

\* A successful DisconnectionComplete for h is handled while h has a stream.
DisconnectStep(h) ==
    /\ arbiter # <<>>
    /\ h \in DOMAIN stream
    /\ last'.op = "in_evt"
    /\ last'.arg.data.kind = "DisconnectionComplete"
    /\ last'.arg.data.status = "Success"
    /\ last'.arg.data.connection_handle = h

\* The credits h held are returned: its in_transit entry is gone, the other
\* entries are as before.
CreditsReleased(h) ==
    /\ arbiter' # <<>>
    /\ arbiter'[1].in_transit = MapDel(arbiter[1].in_transit, h)
    /\ in_transit_sum(arbiter'[1])
         = in_transit_sum(arbiter[1])
             - (IF h \in DOMAIN arbiter[1].in_transit THEN arbiter[1].in_transit[h] ELSE 0)

\* The packets of a run, the states where one is queued, where the last
\* event handled was a successful DisconnectionComplete for h, and where the
\* packet has just been handed to the sink.
Packets == [handle : Handles, origin : Origins, id : 1..MaxPush]
Queued(p) ==
    /\ arbiter # <<>>
    /\ \E i \in 1..Len(arbiter[1].queues[p.origin]) : arbiter[1].queues[p.origin][i] = p
AfterDisconnect(h) ==
    /\ last.op = "in_evt"
    /\ last.arg.data.kind = "DisconnectionComplete"
    /\ last.arg.data.status = "Success"
    /\ last.arg.data.connection_handle = h
    /\ h \notin DOMAIN stream
Emitted(p) ==
    last.op = "out_iso" /\ last.arg.packet = p
\* The packet need not be emitted any more: its arbiter is dropped, its
\* handle removed, or max_buf_count packets are in transit.
Excused(p) ==
    \/ arbiter = <<>>
    \/ p.handle \notin DOMAIN arbiter[1].in_transit
    \/ in_transit_sum(arbiter[1]) >= arbiter[1].max_buf_count

\* C12 (disconnection returns credits): a successful DisconnectionComplete
\* for h removes h's in_transit entry, so the credits it held count no more;
\* and with a sender that is scheduled fairly, a packet queued for another
\* handle g at that time is eventually handed to the sink, unless before
\* that max_buf_count packets are in transit again, g is removed or the
\* arbiter is dropped.
CreditsReturn ==
    /\ [][\A h \in Handles : DisconnectStep(h) => CreditsReleased(h)]_vars
    /\ \A p \in Packets : \A h \in Handles \ {p.handle} :
         (AfterDisconnect(h) /\ Queued(p)) ~> (Emitted(p) \/ Excused(p))

\* C12, its case: h held credits, every credit was in use and a packet for
\* another handle is queued when the DisconnectionComplete for h has just
\* been handled.
CreditsReturnWitness ==
    \E p \in Packets : \E h \in Handles \ {p.handle} :
        /\ AfterDisconnect(h)
        /\ Queued(p)
        /\ last.arg.freed > 0
        /\ last.arg.freed + in_transit_sum(arbiter[1]) = arbiter[1].max_buf_count

\* C13 (reset clears the session): once a successful Reset completion has
\* been handled, no packet that was queued in the arbiter the proxy held is
\* handed to the sink any more.
ResetStopsSender ==
    ~(last.op = "out_iso" /\ last.arg.dropped)

\* The last event handled was a Success completion of Reset, and the proxy
\* has held no arbiter since.
AfterReset ==
    /\ ~panicked /\ arbiter = <<>>
    /\ last.op = "in_evt"
    /\ last.arg.data.kind = "Reset"
    /\ last.arg.data.status = "Success"

\* C14 (pushes without an arbiter are no-ops): an out_iso that follows a
\* successful Reset completion, the proxy holding no arbiter, does not fail.
PushWithoutArbiter ==
    [][AfterReset => ~(last'.op = "panic" /\ last'.arg.in = "out_iso")]_vars

\* C15 (transparency): an incoming event other than NumberOfCompletedPackets,
\* here LE CIS Established, is forwarded to the next module; its handler does
\* not abort before.
TransparentEvents ==
    ~( /\ last.op = "panic"
       /\ last.arg.in = "in_evt"
       /\ last.arg.arg = "LeCisEstablished" )

\* C16 (malformed traffic is preserved): an outgoing ISO packet that fails to
\* decode is forwarded; out_iso does not abort on it.
MalformedIsoPreserved ==
    ~( /\ last.op = "panic"
       /\ last.arg.in = "out_iso"
       /\ last.arg.arg.unwrap = "from_bytes" )

\* ------------------------------------------------------- HAL binding

\* The callback objects a stack may hand to initialize, the packet kinds,
\* and the statuses the driver may complete its initialization with.
HalClients == {1, 2}
HalKinds == {"cmd", "acl", "sco", "iso"}
CStatuses == {"Success", "AlreadyInitialized", "HardwareInitializationError"}

\* The variables the HAL binding leaves alone.
session_vars ==
    <<big, cig, stream, arbiter, service, panicked, upgraded, intake, setup_sent,
      ctrl, started, stack_owed, pushed, emitted, stale>>

\* A faulty variant of the guard of initialize: it never refuses.
initialize_refused_never(state) == FALSE
\* initialize: `!matches!(*state, State::Closed)`
initialize_refused(state) == state # "Closed"

\* A faulty variant of the guard of the sends: it always lets through.
send_allowed_always(state) == TRUE
\* sendHciCommand, ...: `let State::Opened { ref proxy, .. } = *state else`
send_allowed(state) == state = "Opened"

\* initialize, under the state write lock: refused with ALREADY_INITIALIZED
\* through the caller's callbacks unless Closed; else the pipeline is built,
\* the death watch linked (a failure returns the error: nothing is kept) and
\* the state becomes Opened.  Ffi::initialize follows, the lock released.
HalInitialize ==
    /\ ~panicked /\ (hal.state = "Closed" => hal.initializing = <<>>)
    /\ \E callbacks \in HalClients, linked \in BOOLEAN :
         IF initialize_refused(hal.state)
         THEN /\ last' = Op("initialize", [callbacks |-> callbacks, state |-> hal.state,
                                           reports |-> <<"ALREADY_INITIALIZED">>,
                                           built |-> FALSE])
              /\ UNCHANGED hal
         ELSE IF ~linked
         THEN /\ last' = Op("initialize", [callbacks |-> callbacks, state |-> hal.state,
                                           reports |-> <<>>, built |-> TRUE])
              /\ UNCHANGED hal
         ELSE /\ last' = Op("initialize", [callbacks |-> callbacks, state |-> hal.state,
                                           reports |-> <<>>, built |-> TRUE])
              /\ hal' = [hal EXCEPT !.state = "Opened", !.proxy = <<callbacks>>,
                                    !.initializing = <<callbacks>>]
    /\ UNCHANGED session_vars

\* Ffi::initialize: the client is set in the wrapper, then the driver's
\* initialize is called.
HalFfiInitialize ==
    /\ ~panicked /\ hal.initializing # <<>>
    /\ hal' = [hal EXCEPT !.wrapper = hal.initializing, !.initializing = <<>>,
                          !.driver = "starting"]
    /\ last' = Op("ffi_initialize", [callbacks |-> hal.initializing[1]])
    /\ UNCHANGED session_vars

\* close, first statement: State::Closed (the pipeline and the death watch
\* are dropped).
HalClose ==
    /\ ~panicked /\ ~hal.closing
    /\ hal' = [hal EXCEPT !.state = "Closed", !.proxy = <<>>, !.closing = TRUE]
    /\ last' = Op("close", [state |-> hal.state])
    /\ UNCHANGED session_vars

\* Ffi::close: the driver's close is called, then the client removed.
HalFfiClose ==
    /\ ~panicked /\ hal.closing
    /\ hal' = [hal EXCEPT !.wrapper = <<>>, !.closing = FALSE, !.driver = "off"]
    /\ last' = Op("ffi_close", NoArg)
    /\ UNCHANGED session_vars

\* sendHciCommand, sendAclData, sendScoData, sendIsoData, under the state
\* read lock: the pipeline's out_* (which ends in the driver's send_*), or
\* ILLEGAL_STATE.
HalSend ==
    /\ ~panicked
    /\ \E kind \in HalKinds :
         last' = Op("send", [kind |-> kind, state |-> hal.state,
                             result |-> IF send_allowed(hal.state)
                                        THEN "Ok" ELSE "ILLEGAL_STATE",
                             module |-> IF send_allowed(hal.state)
                                        THEN <<kind>> ELSE <<>>,
                             driver |-> IF send_allowed(hal.state)
                                        THEN <<kind>> ELSE <<>>])
    /\ UNCHANGED hal
    /\ UNCHANGED session_vars

\* The death recipient of the client that opened the binding, under the
\* state write lock: Ffi::client_died (the driver's client_died, then the
\* client removed) and State::Closed.
HalClientDied ==
    /\ ~panicked /\ hal.state = "Opened"
    /\ hal' = [hal EXCEPT !.state = "Closed", !.proxy = <<>>, !.wrapper = <<>>,
                          !.driver = "off"]
    /\ last' = Op("client_died", [callbacks |-> hal.proxy[1]])
    /\ UNCHANGED session_vars

\* The driver reports the end of its initialization: CCallbacks passes it to
\* the client in the wrapper, if any, whose initialization_complete closes
\* the binding on a status other than Success or when the stack's callback
\* returns an error.
HalInitializationComplete ==
    /\ ~panicked /\ hal.driver = "starting"
    /\ \E status \in CStatuses, called_back \in BOOLEAN :
         /\ last' = Op("initialization_complete",
                       [status |-> status, delivered |-> hal.wrapper # <<>>])
         /\ hal' = [hal EXCEPT
                      !.driver = IF status = "Success" THEN "on" ELSE "failed",
                      !.state = IF hal.wrapper # <<>> /\ (status # "Success" \/ ~called_back)
                                THEN "Closed" ELSE @,
                      !.proxy = IF hal.wrapper # <<>> /\ (status # "Success" \/ ~called_back)
                                THEN <<>> ELSE @]
    /\ UNCHANGED session_vars

\* The driver, initialized, reports an event or data received: CCallbacks
\* passes it to the client in the wrapper, if any, whose *_received hands it
\* to the pipeline, which ends in the stack's callback.
HalDataReceived ==
    /\ ~panicked /\ hal.driver = "on"
    /\ \E kind \in {"evt", "acl", "sco", "iso"} :
         last' = Op("received", [kind |-> kind, state |-> hal.state,
                                 delivered |-> hal.wrapper # <<>>,
                                 to |-> hal.wrapper])
    /\ UNCHANGED hal
    /\ UNCHANGED session_vars

InitHal ==
    /\ arbiter = <<>>
    /\ GhostInit

NextHal ==
    \/ HalInitialize
    \/ HalFfiInitialize
    \/ HalClose
    \/ HalFfiClose
    \/ HalSend
    \/ HalClientDied
    \/ HalInitializationComplete
    \/ HalDataReceived

SpecHal == InitHal /\ [][NextHal]_vars

\* C17 (sends while Closed): a send made in state Closed returns the
\* illegal-state error and calls neither a pipeline module nor a send entry
\* point of the driver.
SendsWhileClosed ==
    (last.op = "send" /\ last.arg.state = "Closed")
    => /\ last.arg.result = "ILLEGAL_STATE"
       /\ last.arg.module = <<>>
       /\ last.arg.driver = <<>>

\* C17, its case: a send has been made in state Closed, the binding having
\* been opened and closed before, so that the driver still holds a client.
SendsWhileClosedWitness ==
    /\ last.op = "send" /\ last.arg.state = "Closed"
    /\ last.arg.result = "ILLEGAL_STATE"
    /\ hal.wrapper # <<>>

\* C18 (re-initialization while Opened): initialize called in state Opened
\* reports ALREADY_INITIALIZED to the caller's callbacks, builds no pipeline,
\* starts no call of the driver's initialize, and leaves the state, the
\* pipeline with its death watch and the driver's client as they are.
ReinitializeWhileOpened ==
    [][(last'.op = "initialize" /\ hal.state = "Opened")
       => /\ last'.arg.reports = <<"ALREADY_INITIALIZED">>
          /\ ~last'.arg.built
          /\ hal' = hal /\ hal'.state = "Opened"]_vars

\* C18, its case: initialize has been called, with other callbacks than the
\* ones the binding was opened with, while Opened and the driver running.
ReinitializeWhileOpenedWitness ==
    /\ last.op = "initialize" /\ last.arg.state = "Opened"
    /\ last.arg.reports = <<"ALREADY_INITIALIZED">>
    /\ hal.state = "Opened" /\ hal.proxy # <<last.arg.callbacks>>
    /\ hal.driver = "on" /\ hal.wrapper = hal.proxy

\* C19 (callbacks while Closed are dropped): an event or data the driver
\* reports while the state is Closed is not delivered to the pipeline.
CallbacksWhileClosed ==
    ~(last.op = "received" /\ last.arg.state = "Closed" /\ last.arg.delivered)

\* ------------------------------------------------------- offload service

\* The clients that may register, and the configurations of the streams the
\* proxy may start.
ServiceClients == {1, 2}
ServiceConfigs ==
    { [ isoIntervalUs |-> 1250 * i, sduIntervalUs |-> 10000,
        maxSduSize |-> 120, flushTimeout |-> 1 ] : i \in IsoIntervals }

\* The variables the service leaves alone.
not_service_vars ==
    <<big, cig, stream, arbiter, panicked, hal, upgraded, intake, setup_sent,
      ctrl, started, stack_owed, pushed, emitted, stale>>

\* The orders a HashMap with these keys may be iterated in.
Orders(keys) ==
    { order \in [1..Cardinality(keys) -> keys] :
        \A i, j \in 1..Cardinality(keys) : order[i] = order[j] => i = j }

\* registerCallbacks: the callbacks are stored, and startStream is called on
\* them for every entry of streams, in the map's iteration order.
SvcRegisterCallbacks ==
    /\ ~panicked
    /\ \E callbacks \in ServiceClients, order \in Orders(DOMAIN service.streams) :
         /\ service' = [service EXCEPT !.callbacks = <<callbacks>>]
         /\ last' = Op("registerCallbacks",
                       [ callbacks |-> callbacks,
                         previous |-> service.callbacks,
                         startStream |-> [ i \in DOMAIN order |->
                                             [ handle |-> order[i],
                                               config |-> service.streams[order[i]] ] ] ])
    /\ UNCHANGED not_service_vars

\* The death recipient of the service: the callbacks are forgotten.
SvcClientDied ==
    /\ ~panicked /\ service.callbacks # <<>>
    /\ service' = [service EXCEPT !.callbacks = <<>>]
    /\ last' = Op("service_client_died", NoArg)
    /\ UNCHANGED not_service_vars

\* Service::start_stream: startStream on the registered callbacks, if any,
\* and the stream recorded.
SvcStartStream ==
    /\ ~panicked
    /\ \E handle \in Handles, config \in ServiceConfigs :
         /\ service' = Service_start_stream(service, handle, config)
         /\ last' = Op("start_stream",
                       [ handle |-> handle, config |-> config,
                         startStream |-> IF service.callbacks # <<>>
                                         THEN <<[handle |-> handle, config |-> config]>>
                                         ELSE <<>> ])
    /\ UNCHANGED not_service_vars

\* Service::stop_stream: the stream removed, stopStream on the registered
\* callbacks, if any.
SvcStopStream ==
    /\ ~panicked
    /\ \E handle \in Handles :
         /\ service' = Service_stop_stream(service, handle)
         /\ last' = Op("stop_stream",
                       [ handle |-> handle,
                         stopStream |-> IF service.callbacks # <<>>
                                        THEN <<handle>> ELSE <<>> ])
    /\ UNCHANGED not_service_vars

\* Service::reset: the default State but for the arbiter.
SvcReset ==
    /\ ~panicked
    /\ service' = Service_reset(service)
    /\ last' = Op("service_reset", NoArg)
    /\ UNCHANGED not_service_vars

InitService ==
    /\ arbiter = <<>>
    /\ GhostInit

NextService ==
    \/ SvcRegisterCallbacks
    \/ SvcClientDied
    \/ SvcStartStream
    \/ SvcStopStream
    \/ SvcReset

SpecService == InitService /\ [][NextService]_vars

\* startStream is called exactly once for each entry of the map, with the
\* configuration stored for it.
ReplaysOnce(calls, streams) ==
    /\ Len(calls) = Cardinality(DOMAIN streams)
    /\ \A h \in DOMAIN streams :
         \E i \in DOMAIN calls :
           /\ calls[i] = [handle |-> h, config |-> streams[h]]
           /\ \A j \in DOMAIN calls : calls[j].handle = h => j = i

\* C20 (callback replay): registerCallbacks stores the callbacks and calls
\* startStream on them exactly once for each stream of the map, with its
\* stored configuration, the map being left as it is; and a stream started
\* while no client is registered is recorded in the map all the same, so
\* that it is replayed to the client that registers next.
CallbackReplay ==
    [][ /\ last'.op = "registerCallbacks"
          => /\ service'.callbacks = <<last'.arg.callbacks>>
             /\ service'.streams = service.streams
             /\ ReplaysOnce(last'.arg.startStream, service.streams)
        /\ (last'.op = "start_stream" /\ service.callbacks = <<>>)
          => /\ last'.arg.handle \in DOMAIN service'.streams
             /\ service'.streams[last'.arg.handle] = last'.arg.config
             /\ \A h \in DOMAIN service.streams \ {last'.arg.handle} :
                  h \in DOMAIN service'.streams /\ service'.streams[h] = service.streams[h]
      ]_vars

\* C20, its case: a client has registered when none was, and two streams
\* with different configurations have been replayed to it.
CallbackReplayWitness ==
    /\ last.op = "registerCallbacks"
    /\ last.arg.previous = <<>>
    /\ Len(last.arg.startStream) = 2
    /\ last.arg.startStream[1].config # last.arg.startStream[2].config
    /\ service.callbacks = <<last.arg.callbacks>>

\* C21 (sendPacket argument check): a sendPacket whose handle is outside the
\* 12 bits of a connection handle does not fail in another way than by
\* returning the illegal-argument error.
SendPacketArgumentCheck ==
    ~( /\ last.op = "panic"
       /\ last.arg.in = "to_bytes"
       /\ last.arg.arg.origin = Audio
       /\ last.arg.arg.handle > MaxConnectionHandle )

\* ------------------------------------------------------------------ codec

RECURSIVE Pow2(_)
Pow2(n) == IF n = 0 THEN 1 ELSE 2 * Pow2(n - 1)

\* Writer::write_u32::<N>: the N low bytes of v, least significant first;
\* the bytes of v above the N-th are not written.
write_u32(N, v) == [i \in 1..N |-> (v \div Pow2(8 * (i - 1))) % 256]

\* Reader::read_u32::<N>, on the N bytes Reader::get returned.
RECURSIVE read_u32(_)
read_u32(bytes) ==
    IF bytes = <<>> THEN 0 ELSE Head(bytes) + 256 * read_u32(Tail(bytes))

\* pack!: the (value, width) pairs from the low bits up, each asserted to fit
\* its width; <<>> when an assertion fails.
RECURSIVE pack(_)
pack(fields) ==
    IF fields = <<>> THEN <<0>>
    ELSE LET x == Head(fields)[1]
             n == Head(fields)[2]
             rest == pack(Tail(fields))
         IN IF x >= Pow2(n) \/ rest = <<>> THEN <<>>
            ELSE <<x + Pow2(n) * rest[1]>>

\* unpack!: the fields of the given widths from the low bits up; the bits
\* above the last field are dropped.
RECURSIVE unpack(_, _)
unpack(v, widths) ==
    IF widths = <<>> THEN <<>>
    ELSE <<v % Pow2(Head(widths))>> \o unpack(v \div Pow2(Head(widths)), Tail(widths))

\* Last discriminant of enum Status (TooEarly); the discriminants are 0..0x47.
StatusMax == 71

\* Fields of the derived structs: the Rust type and the bytes N on the wire.
F_u8 == [type |-> "u8", N |-> 1]
F_u16 == [type |-> "u16", N |-> 2]
F_u24 == [type |-> "u32", N |-> 3]
F_Status == [type |-> "Status", N |-> 1]

\* #[derive(Write)] on a struct: its fields in order, each on its N bytes.
RECURSIVE struct_write(_, _)
struct_write(fields, value) ==
    IF fields = <<>> THEN <<>>
    ELSE write_u32(Head(fields).N, Head(value))
           \o struct_write(Tail(fields), Tail(value))

\* #[derive(Read)] on a struct: None (<<>>) when a field is cut short or an
\* enum discriminant is not declared; else the value and the bytes not read.
RECURSIVE struct_read(_, _)
struct_read(fields, bytes) ==
    IF fields = <<>> THEN << [value |-> <<>>, rest |-> bytes] >>
    ELSE LET f == Head(fields) IN
         IF Len(bytes) < f.N THEN <<>>
         ELSE LET v == read_u32(SubSeq(bytes, 1, f.N))
                  next == struct_read(Tail(fields), SubSeq(bytes, f.N + 1, Len(bytes)))
              IN IF (f.type = "Status" /\ v > StatusMax) \/ next = <<>> THEN <<>>
                 ELSE << [value |-> <<v>> \o next[1].value, rest |-> next[1].rest] >>

\* Event codes, and the opcode of LeRemoveIsoDataPath.
LE_META == 62
OpCode_from(ogf, ocf) == pack(<< <<ocf, 10>>, <<ogf, 6>> >>)[1]

EventTypes == {"DisconnectionComplete", "LeCisEstablished"}
CommandTypes == {"LeRemoveIsoDataPath"}

\* EventCode::CODE
EventCode(t) ==
    IF t = "DisconnectionComplete" THEN <<5>> ELSE <<LE_META, 25>>

\* CommandOpCode::OPCODE
CommandOpCode(t) == OpCode_from(8, 111)

\* The fields of the structs, in declaration order.
Fields(t) ==
    IF t = "DisconnectionComplete" THEN <<F_Status, F_u16, F_u8>>
    ELSE IF t = "LeCisEstablished"
    THEN <<F_Status, F_u16, F_u24, F_u24, F_u24, F_u24, F_u8, F_u8, F_u8, F_u8,
           F_u8, F_u8, F_u8, F_u16, F_u16, F_u16>>
    ELSE <<F_u16, F_u8>>

\* Event::to_bytes: code, length, sub-code, parameters; the length is set
\* from what was written.
Event_to_bytes(t, value) ==
    LET params == Tail(EventCode(t)) \o struct_write(Fields(t), value) IN
    <<EventCode(t)[1], Len(params)>> \o params

\* Command::to_bytes
Command_to_bytes(t, value) ==
    LET params == struct_write(Fields(t), value) IN
    write_u32(2, CommandOpCode(t)) \o <<Len(params)>> \o params

\* What from_bytes returns on success: the packet, with the bytes of the
\* declared length the read left (left) and the bytes after it (after).
Decoded(t, read, after) ==
    << [type |-> t, value |-> read.value, left |-> Len(read.rest), after |-> after] >>

\* Event::from_bytes with parse_packet and dispatch_read; <<>> for Err.
Event_from_bytes(data) ==
    IF Len(data) < 2 \/ Len(data) - 2 < data[2] THEN <<>>
    ELSE LET len == data[2]
             r == SubSeq(data, 3, 2 + len)
             after == Len(data) - 2 - len
         IN IF data[1] = LE_META /\ r = <<>> THEN <<>>
            ELSE LET code == IF data[1] = LE_META THEN <<LE_META, r[1]>> ELSE <<data[1]>>
                     params == IF data[1] = LE_META THEN Tail(r) ELSE r
                 IN IF \E t \in EventTypes : EventCode(t) = code
                    THEN LET t == CHOOSE t \in EventTypes : EventCode(t) = code
                             read == struct_read(Fields(t), params)
                         IN IF read = <<>> THEN <<>> ELSE Decoded(t, read[1], after)
                    ELSE Decoded("Unknown", [value |-> code, rest |-> <<>>], after)

\* Command::from_bytes with parse_packet and dispatch_read; <<>> for Err.
Command_from_bytes(data) ==
    IF Len(data) < 3 \/ Len(data) - 3 < data[3] THEN <<>>
    ELSE LET opcode == read_u32(SubSeq(data, 1, 2))
             len == data[3]
             params == SubSeq(data, 4, 3 + len)
             after == Len(data) - 3 - len
         IN IF \E t \in CommandTypes : CommandOpCode(t) = opcode
            THEN LET t == CHOOSE t \in CommandTypes : CommandOpCode(t) = opcode
                     read == struct_read(Fields(t), params)
                 IN IF read = <<>> THEN <<>> ELSE Decoded(t, read[1], after)
            ELSE Decoded("Unknown", [value |-> <<opcode>>, rest |-> <<>>], after)

PacketTypes == EventTypes \cup CommandTypes
to_bytes(t, value) ==
    IF t \in EventTypes THEN Event_to_bytes(t, value) ELSE Command_to_bytes(t, value)
from_bytes(t, data) ==
    IF t \in EventTypes THEN Event_from_bytes(data) ELSE Command_from_bytes(data)

\* IsoSduFragment::First { hdr, is_last } and IsoSduFragment::Continue { is_last };
\* hdr.timestamp is an Option<u32>.
First(hdr, is_last) == [first |-> TRUE, hdr |-> <<hdr>>, is_last |-> is_last]
Continue(is_last) == [first |-> FALSE, hdr |-> <<>>, is_last |-> is_last]

\* IsoData::sdu_header_len, on the fragment itself.
IsoData_sdu_header_len(sdu_fragment) ==
    IF sdu_fragment.first
    THEN 4 * (1 + (IF sdu_fragment.hdr[1].timestamp # <<>> THEN 1 ELSE 0))
    ELSE 0

\* impl Write for IsoSduHeader; <<>> when pack! asserts.
IsoSduHeader_write(hdr) ==
    LET word == pack(<< <<hdr.sdu_length, 12>>, <<0, 2>>, <<hdr.status, 2>> >>) IN
    IF word = <<>> THEN <<>>
    ELSE << (IF hdr.timestamp # <<>> THEN write_u32(4, hdr.timestamp[1]) ELSE <<>>)
              \o write_u32(2, hdr.sequence_number) \o write_u32(2, word[1]) >>

\* IsoSduHeader::parse; <<>> for None.
IsoSduHeader_parse(bytes, ts_present) ==
    LET ts == IF ts_present THEN 4 ELSE 0 IN
    IF Len(bytes) < ts + 4 THEN <<>>
    ELSE LET fields == unpack(read_u32(SubSeq(bytes, ts + 3, ts + 4)), <<12, 2, 2>>) IN
         << [ timestamp |-> IF ts_present THEN <<read_u32(SubSeq(bytes, 1, 4))>> ELSE <<>>,
              sequence_number |-> read_u32(SubSeq(bytes, ts + 1, ts + 2)),
              sdu_length |-> fields[1],
              status |-> fields[3] ] >>

\* impl Write for IsoData (IsoData::to_bytes); <<>> when pack! asserts.
IsoData_write(d) ==
    LET f == d.sdu_fragment
        pb_flag == IF f.first THEN (IF f.is_last THEN 2 ELSE 0)
                   ELSE (IF f.is_last THEN 3 ELSE 1)
        ts_present == IF f.first /\ f.hdr[1].timestamp # <<>> THEN 1 ELSE 0
        word == pack(<< <<d.connection_handle, 12>>, <<pb_flag, 2>>, <<ts_present, 1>> >>)
        packet_len == pack(<< <<IsoData_sdu_header_len(f) + Len(d.payload), 14>> >>)
        hdr == IF f.first THEN IsoSduHeader_write(f.hdr[1]) ELSE << <<>> >>
    IN IF word = <<>> \/ packet_len = <<>> \/ hdr = <<>> THEN <<>>
       ELSE << write_u32(2, word[1]) \o write_u32(2, packet_len[1]) \o hdr[1] \o d.payload >>

\* IsoData::parse (IsoData::from_bytes); <<>> for None.
IsoData_parse(bytes) ==
    IF Len(bytes) < 4 THEN <<>>
    ELSE LET word == unpack(read_u32(SubSeq(bytes, 1, 2)), <<12, 2, 1>>)
             data_len == unpack(read_u32(SubSeq(bytes, 3, 4)), <<14>>)[1]
             first == word[2] \in {0, 2}
             hdr == IF first
                    THEN IsoSduHeader_parse(SubSeq(bytes, 5, Len(bytes)), word[3] # 0)
                    ELSE <<>>
         IN IF first /\ hdr = <<>> THEN <<>>
            ELSE LET f == IF first THEN First(hdr[1], word[2] = 2)
                          ELSE Continue(word[2] = 3)
                     hdr_len == IsoData_sdu_header_len(f)
                 IN IF data_len < hdr_len \/ 4 + data_len > Len(bytes) THEN <<>>
                    ELSE << [ connection_handle |-> word[1],
                              sdu_fragment |-> f,
                              payload |-> SubSeq(bytes, 4 + hdr_len + 1, 4 + data_len) ] >>

\* ----------------------------------------- specification of the codec

\* Values of the fields, up to the largest their Rust type holds short of
\* 2^31; for a 24-bit field the values around 2^24.
Pow24 == 16777216
FieldValues(f) ==
    IF f.type = "u8" THEN {0, 255}
    ELSE IF f.type = "u16" THEN {96, U16Max}
    ELSE IF f.type = "Status" THEN {0, StatusMax}
    ELSE {0, 11328, Pow24 - 1, Pow24, Pow24 + 11328}

\* The values of the packets written: every field of the short structs takes
\* each of its values; of LeCisEstablished, the status, cig_sync_delay and
\* iso_interval do.
LeCisEstablishedValue ==
    <<0, 96, 11328, 11328, 101328, 31328, 2, 2, 6, 2, 0, 5, 1, 120, 0, 16>>
RECURSIVE FieldsValues(_)
FieldsValues(fields) ==
    IF fields = <<>> THEN {<<>>}
    ELSE { <<v>> \o rest : v \in FieldValues(Head(fields)),
                           rest \in FieldsValues(Tail(fields)) }
PacketValues(t) ==
    IF t = "LeCisEstablished"
    THEN { [LeCisEstablishedValue EXCEPT ![1] = s, ![3] = d, ![16] = i] :
             s \in FieldValues(F_Status), d \in FieldValues(F_u24),
             i \in FieldValues(F_u16) }
    ELSE FieldsValues(Fields(t))

\* The byte strings decoded: a packet as to_bytes writes it, with the declared
\* length one less, equal or one more than the parameters written, followed
\* by up to MaxExtra more bytes.
MaxExtra == 2
LengthAt(t) == IF t \in EventTypes THEN 2 ELSE 3
PacketBytes(t) ==
    { [to_bytes(t, v) EXCEPT ![LengthAt(t)] = @ + delta] \o [i \in 1..extra |-> 0] :
        v \in PacketValues(t), delta \in {-1, 0, 1}, extra \in 0..MaxExtra }

\* The ISO data packets written: handles below, at and above the 12 bits of
\* the wire, SDU lengths and statuses inside and outside their 12 and 2 bits.
IsoSduHeaders ==
    [ timestamp : {<<>>, <<1>>}, sequence_number : {1},
      sdu_length : {1, MaxConnectionHandle + 1}, status : {0, 3, 4} ]
IsoSduFragments ==
    { First(hdr, is_last) : hdr \in IsoSduHeaders, is_last \in BOOLEAN }
      \cup { Continue(is_last) : is_last \in BOOLEAN }
IsoValues ==
    [ connection_handle : {96, MaxConnectionHandle, MaxConnectionHandle + 1},
      sdu_fragment : IsoSduFragments,
      payload : {<<>>, <<7>>} ]

\* The ISO byte strings decoded: a packet as to_bytes writes it; the same
\* with the reserved bit of the first word, the reserved bits of the length
\* word or those of the SDU header set; with one more byte; with the last
\* byte missing.
IsoWritten == { IsoData_write(d)[1] : d \in { v \in IsoValues : IsoData_write(v) # <<>> } }
IsoPacketBytes ==
    IsoWritten
      \cup { [b EXCEPT ![2] = @ + 128] : b \in IsoWritten }
      \cup { [b EXCEPT ![4] = @ + 64] : b \in IsoWritten }
      \cup { [b EXCEPT ![8] = @ + 16] : b \in { w \in IsoWritten : w[2] \in {0, 32} } }
      \cup { b \o <<0>> : b \in IsoWritten }
      \cup { SubSeq(b, 1, Len(b) - 1) : b \in IsoWritten }

codec_vars ==
    <<big, cig, stream, arbiter, service, panicked, hal, upgraded, intake, setup_sent,
      ctrl, started, stack_owed, pushed, emitted, stale>>

\* value.to_bytes(), then from_bytes on what it wrote.
CodecToBytes ==
    /\ ~panicked
    /\ \E t \in PacketTypes : \E value \in PacketValues(t) :
         last' = Op("to_bytes", [ type |-> t, value |-> value,
                                   bytes |-> to_bytes(t, value),
                                   parsed |-> from_bytes(t, to_bytes(t, value)) ])
    /\ UNCHANGED codec_vars

\* from_bytes(data), then to_bytes on the packet it returned.
CodecFromBytes ==
    /\ ~panicked
    /\ \E t \in PacketTypes : \E data \in PacketBytes(t) :
         LET result == from_bytes(t, data) IN
         last' = Op("from_bytes",
                    [ data |-> data, result |-> result,
                      written |-> IF result # <<>> /\ result[1].type \in PacketTypes
                                  THEN <<to_bytes(result[1].type, result[1].value)>>
                                  ELSE <<>> ])
    /\ UNCHANGED codec_vars

\* IsoData::to_bytes, then IsoData::from_bytes on what it wrote.
IsoToBytes ==
    /\ ~panicked
    /\ \E d \in IsoValues :
         IF IsoData_write(d) = <<>>
         THEN Panic("IsoData::to_bytes", [value |-> d])
         ELSE /\ last' = Op("IsoData::to_bytes",
                            [ value |-> d, bytes |-> IsoData_write(d)[1],
                              parsed |-> IsoData_parse(IsoData_write(d)[1]) ])
              /\ UNCHANGED codec_vars

\* IsoData::from_bytes(data), then to_bytes on the packet it returned.
IsoFromBytes ==
    /\ ~panicked
    /\ \E data \in IsoPacketBytes :
         LET result == IsoData_parse(data) IN
         last' = Op("IsoData::from_bytes",
                    [ data |-> data, result |-> result,
                      written |-> IF result # <<>> THEN IsoData_write(result[1]) ELSE <<>> ])
    /\ UNCHANGED codec_vars

InitCodec ==
    /\ arbiter = <<>>
    /\ GhostInit

NextCodec ==
    \/ CodecToBytes
    \/ CodecFromBytes
    \/ IsoToBytes
    \/ IsoFromBytes

SpecCodec == InitCodec /\ [][NextCodec]_vars

\* C22 (codec round trip from values): parsing the serialization of a value
\* of a recognized packet type, ISO data included, yields that value, also
\* when a field holds a value its Rust type allows and its wire width does
\* not.
ValuesRoundTrip ==
    /\ last.op = "to_bytes"
         => /\ last.arg.parsed # <<>>
            /\ last.arg.parsed[1].type = last.arg.type
            /\ last.arg.parsed[1].value = last.arg.value
    /\ last.op = "IsoData::to_bytes" => last.arg.parsed = <<last.arg.value>>
    /\ ~(last.op = "panic" /\ last.arg.in = "IsoData::to_bytes")

\* C23 (codec round trip from bytes): a byte string that from_bytes decodes
\* to a recognized packet is what to_bytes writes for that packet.
BytesRoundTrip ==
    /\ (last.op = "from_bytes" /\ last.arg.written # <<>>)
         => last.arg.written = <<last.arg.data>>
    /\ (last.op = "IsoData::from_bytes" /\ last.arg.result # <<>>)
         => last.arg.written = <<last.arg.data>>

\* C24 (declared-length check): a command or an event is decoded only when
\* its declared parameter length is the number of bytes its parameters take
\* and no byte follows.
DeclaredLengthCheck ==
    (last.op = "from_bytes" /\ last.arg.result # <<>>)
      => /\ last.arg.result[1].left = 0
         /\ last.arg.result[1].after = 0

\* -------------------------------------------- specification of the shutdown

\* The queued packets of an arbiter.
queued_count(a) == Len(a.queues[Audio]) + Len(a.queues[Incoming])

\* The arbiter is owned and not being dropped: its methods can be called.
Owned == arbiter # <<>> /\ ~arbiter[1].halt

\* Drop for Arbiter, under the mutex: halt, notify.
DropHalt ==
    /\ ~panicked /\ Owned
    /\ arbiter' = <<notify_one([arbiter[1] EXCEPT !.halt = TRUE])>>
    /\ last' = Op("drop", [pc |-> arbiter[1].pc, queued |-> queued_count(arbiter[1])])
    /\ UNCHANGED <<panicked, call_vars, setup_sent, pushed, emitted, stale, proxy_vars, env_vars>>

\* Drop for Arbiter: thread.join() returns once thread_loop has returned;
\* the State and its queues go with the arbiter.
DropJoin ==
    /\ ~panicked /\ arbiter # <<>> /\ arbiter[1].halt /\ arbiter[1].pc = "exit"
    /\ arbiter' = <<>>
    /\ last' = Op("join", [discarded |-> queued_count(arbiter[1])])
    /\ UNCHANGED <<panicked, call_vars, setup_sent, pushed, emitted, stale, proxy_vars, env_vars>>

\* The owner calls the arbiter's methods until it drops it; the sender runs
\* until it leaves its loop.
NextShutdown ==
    \/ Owned /\ AddConnection
    \/ Owned /\ RemoveConnection
    \/ Owned /\ PushAudio
    \/ Owned /\ PushIncoming
    \/ Owned /\ SetCompleted
    \/ ThreadLock
    \/ ThreadSend
    \/ SpuriousWakeup
    \/ DropHalt
    \/ DropJoin

\* The sender is a thread of its own and the sink returns: the scheduler
\* lets the sender run, and lets the drop run once the sender has left.
SpecShutdown ==
    /\ InitArbiter
    /\ [][NextShutdown]_vars
    /\ WF_arbiter(ThreadLock)
    /\ WF_arbiter(ThreadSend)
    /\ WF_arbiter(DropJoin)

\* C25 (shutdown terminates): once the drop has set halt, whatever the
\* sender was doing, the sender leaves its loop and the join returns; from
\* halt on no packet leaves the queues, the only packet emitted is the one
\* the sender held, and nothing is emitted once the join has returned.
ShutdownTerminates ==
    /\ (arbiter # <<>> /\ arbiter[1].halt) ~> (arbiter = <<>>)
    /\ [][ /\ (arbiter # <<>> /\ arbiter[1].halt)
             => \/ /\ arbiter' = <<>>
                   /\ arbiter[1].pc = "exit"
                   /\ emitted' = emitted
                \/ /\ arbiter' # <<>>
                   /\ arbiter'[1].halt
                   /\ arbiter'[1].queues = arbiter[1].queues
                   /\ emitted' # emitted => arbiter[1].pc = "send"
           /\ (arbiter = <<>>) => (arbiter' = <<>> /\ emitted' = emitted)
         ]_vars

\* C25, its case: the drop has set halt while the sender was forwarding a
\* packet and another packet was still queued.
ShutdownTerminatesWitness ==
    /\ last.op = "drop"
    /\ last.arg.pc = "send"
    /\ last.arg.queued > 0
    /\ arbiter # <<>> /\ arbiter[1].halt /\ arbiter[1].pc = "send"

\* ------------------------------- the credits: one offloaded stream of two

\* The session once LeSetupIsoDataPath has completed for handle 1 with the
\* software data path: its stream is Enabled and started at the service, the
\* stream of handle 2 is the stack's.
InitCredits ==
    /\ big = EmptyMap
    /\ cig = MapPut(EmptyMap, 1, SessionCig)
    /\ stream = [h \in Handles |->
                   [new_cis(SessionCig, SessionCisEstablished(h)) EXCEPT
                      !.state = IF h = 1 THEN "Enabled" ELSE "Disabled"]]
    /\ \E len \in BufLens, count \in BufCounts :
         arbiter = <<add_connection(add_connection(Arbiter_new(len, count), 1), 2)>>
    /\ panicked = FALSE
    /\ service = Service_start_stream(
                     NoService, 1,
                     StreamConfiguration(new_cis(SessionCig, SessionCisEstablished(1))))
    /\ started = {1}
    /\ ctrl = NoCounts /\ stack_owed = NoCounts
    /\ pushed = NoPushed /\ emitted = NoEmitted /\ stale = FALSE
    /\ hal = NoHal /\ upgraded = <<>> /\ intake = NoIntake /\ setup_sent = NoSetup
    /\ last = Op("new", NoArg)

NextCredits ==
    \/ OutIsoOf(Handles, MaxPush)
    \/ SendPacket
    \/ ThreadLock
    \/ ThreadSendToController
    \/ InEvt_NumberOfCompletedPacketsOf(Handles)

SpecCredits == InitCredits /\ [][NextCredits]_vars

\* C26 (credit first for every entry): when a NumberOfCompletedPackets event
\* has been handled, the in_transit of every tracked handle is less by the
\* counts of all the entries for it, retained or not, a sender that was
\* waiting has been woken, and only the retained entries are forwarded.
CreditFirst ==
    [][ ( /\ last'.op = "in_evt"
          /\ last'.arg.data.kind = "NumberOfCompletedPackets"
          /\ arbiter # <<>> )
        => /\ arbiter' # <<>>
           /\ \A h \in DOMAIN arbiter[1].in_transit :
                /\ h \in DOMAIN arbiter'[1].in_transit
                /\ arbiter'[1].in_transit[h]
                     = arbiter[1].in_transit[h] - nocp_count(last'.arg.data.handles, h)
           /\ ( /\ arbiter[1].pc = "wait"
                /\ \E i \in 1..Len(last'.arg.data.handles) :
                     last'.arg.data.handles[i].connection_handle
                       \in DOMAIN arbiter[1].in_transit )
                => arbiter'[1].pc = "lock"
           /\ \A i \in 1..Len(last'.arg.fwd) :
                \A j \in 1..Len(last'.arg.fwd[i].handles) :
                  ~nocp_is_audio(stream, last'.arg.fwd[i].handles[j].connection_handle)
      ]_vars

\* C26, its case: the only entry of the event was for the offloaded handle
\* and nothing was forwarded, every credit was in use before it, and the
\* sender, awake, now finds the packet the stack queued for the other handle.
CreditFirstWitness ==
    /\ last.op = "in_evt"
    /\ last.arg.data.kind = "NumberOfCompletedPackets"
    /\ Len(last.arg.data.handles) = 1
    /\ last.arg.data.handles[1].connection_handle = 1
    /\ last.arg.fwd = <<>>
    /\ arbiter # <<>>
    /\ arbiter[1].pc = "lock"
    /\ in_transit_sum(arbiter[1]) + last.arg.data.handles[1].num_completed_packets
         = arbiter[1].max_buf_count
    /\ arbiter[1].queues[Audio] = <<>>
    /\ arbiter[1].queues[Incoming] # <<>>
    /\ Head(arbiter[1].queues[Incoming]).handle = 2
    /\ pull_index(arbiter[1]) = <<Incoming>>

\* C27 (set_completed saturates): set_completed(h, n) on a tracked handle
\* leaves in_transit[h] at max(0, in_transit[h] - n) and wakes a waiting
\* sender; on an untracked handle it leaves the arbiter as it was.
SetCompletedSaturates ==
    [][ ( /\ arbiter # <<>>
          /\ \/ last'.op = "set_completed"
             \/ last'.op = "panic" /\ last'.arg.in = "set_completed" )
        => LET call == IF last'.op = "panic" THEN last'.arg.arg ELSE last'.arg
               a == arbiter[1]
           IN /\ arbiter' # <<>>
              /\ IF call.handle \in DOMAIN a.in_transit
                 THEN /\ arbiter'[1].in_transit[call.handle]
                          = IF call.num > a.in_transit[call.handle] THEN 0
                            ELSE a.in_transit[call.handle] - call.num
                      /\ a.pc = "wait" => arbiter'[1].pc = "lock"
                 ELSE arbiter' = arbiter
      ]_vars

NoLostWakeup ==
    ( /\ arbiter # <<>>
      /\ ~arbiter[1].halt
      /\ queued_count(arbiter[1]) > 0
      /\ in_transit_sum(arbiter[1]) < arbiter[1].max_buf_count )
      ~> ( \/ last.op = "out_iso"
           \/ last.op = "remove_connection"
           \/ arbiter = <<>>
           \/ arbiter[1].halt )

\* C29, its case: every credit was in use and a packet queued, and
\* set_completed has just freed a credit for it.
NoLostWakeupWitness ==
    /\ last.op = "set_completed"
    /\ arbiter # <<>>
    /\ ~arbiter[1].halt
    /\ arbiter[1].pc = "lock"
    /\ queued_count(arbiter[1]) > 0
    /\ in_transit_sum(arbiter[1]) < arbiter[1].max_buf_count
    /\ in_transit_sum(arbiter[1]) + last.arg.num = arbiter[1].max_buf_count

\* ------------------------------------------ stream-start configuration

\* The runs of the stream parameters: one CIG of two CISes with different
\* SDU sizes, in either order in the command; the controller hands out the
\* handles 1 and 2 in either order; every field of a command or an event
\* has a value no other field has.  One BIG with one BIS.
StreamCis1 == [max_sdu_c_to_p |-> 100, max_sdu_p_to_c |-> 40]
StreamCis2 == [max_sdu_c_to_p |-> 120, max_sdu_p_to_c |-> 60]
StreamCigCmds ==
    [ kind : {"LeSetCigParameters"}, cig_id : CigIds,
      sdu_interval_c_to_p : {10000}, sdu_interval_p_to_c : {20000},
      cis : {<<StreamCis1, StreamCis2>>, <<StreamCis2, StreamCis1>>} ]
StreamCigCompletes ==
    [ kind : {"LeSetCigParametersComplete"}, status : {"Success"}, cig_id : CigIds,
      connection_handles : {<<1, 2>>, <<2, 1>>} ]
StreamCisEstablisheds ==
    [ kind : {"LeCisEstablished"}, status : {"Success"}, connection_handle : Handles,
      ft_c_to_p : {3}, ft_p_to_c : {2}, iso_interval : {16} ]
StreamSetupCmds ==
    [ kind : {"LeSetupIsoDataPath"}, connection_handle : Handles,
      data_path_direction : {"Input"},
      data_path_id : {DATA_PATH_ID_SOFTWARE},
      codec_id : {[coding_format |-> "Lc3", company_id |-> 0, vendor_id |-> 0]},
      controller_delay : {0},
      codec_configuration : {<<2>>},
      trailing : {0} ]
StreamSetupCompletes ==
    [ kind : {"LeSetupIsoDataPath"}, status : {"Success"}, connection_handle : Handles ]
StreamBigCmds ==
    [ kind : {"LeCreateBig"}, big_handle : BigHandles,
      sdu_interval : {5000}, max_sdu : {60} ]
StreamBigCompletes ==
    [ kind : {"LeCreateBigComplete"}, status : {"Success"}, big_handle : BigHandles,
      irc : {4}, iso_interval : {32}, bis_handles : {<<2>>} ]

NextStreams ==
    \/ OutCmd_LeSetCigParametersOf(StreamCigCmds)
    \/ InEvt_LeSetCigParametersCompleteOf(StreamCigCompletes)
    \/ InEvt_LeCisEstablishedOf(StreamCisEstablisheds)
    \/ OutCmd_LeCreateBigOf(StreamBigCmds)
    \/ InEvt_LeCreateBigCompleteOf(StreamBigCompletes)
    \/ OutCmd_LeSetupIsoDataPathOf(StreamSetupCmds)
    \/ InEvt_LeSetupIsoDataPathCompleteOf(StreamSetupCompletes)

SpecStreams == InitArbiter /\ [][NextStreams]_vars

\* The step is the handling of a command or an event of the kind, which the
\* proxy has handed on.
StreamStep(kind) ==
    last'.op = "pass" /\ "data" \in DOMAIN last' /\ last'.data.kind = kind

\* LeSetCigParameters: the CIG recorded has the command's c_to_p SDU
\* interval and, position by position, the c_to_p SDU sizes of its CISes.
CigRecorded ==
    StreamStep("LeSetCigParameters") =>
        LET c == last'.data
            g == cig'[c.cig_id]
        IN /\ g.sdu_interval_c_to_p = c.sdu_interval_c_to_p
           /\ Len(g.cis) = Len(c.cis)
           /\ \A i \in 1..Len(c.cis) :
                  g.cis[i].max_sdu_size_c_to_p = c.cis[i].max_sdu_c_to_p

\* The completion of LeSetCigParameters: the CIS at a position gets the
\* handle at that position of the completion's list, and keeps its sizes.
CigHandles ==
    StreamStep("LeSetCigParametersComplete") =>
        LET e == last'.data
            g == cig[e.cig_id]
            g2 == cig'[e.cig_id]
        IN /\ g2.sdu_interval_c_to_p = g.sdu_interval_c_to_p
           /\ Len(g2.cis) = Len(e.connection_handles)
           /\ \A i \in 1..Len(e.connection_handles) :
                  /\ g2.cis[i].handle = e.connection_handles[i]
                  /\ g2.cis[i].max_sdu_size_c_to_p = g.cis[i].max_sdu_size_c_to_p

\* No other step changes a recorded CIG, short of a panic, which ends the
\* proxy.
CigKept ==
    /\ ~StreamStep("LeSetCigParameters")
    /\ ~StreamStep("LeSetCigParametersComplete")
    /\ last'.op # "panic"
    => cig' = cig

\* LeCisEstablished for the handle h: the stream of h has the event's ISO
\* interval times 1250, the c_to_p SDU interval of the CIG that lists h,
\* the c_to_p SDU size of the CIS of that CIG that has the handle h, and
\* the event's ft_c_to_p.
CisStream ==
    StreamStep("LeCisEstablished") =>
        LET e == last'.data
            h == e.connection_handle
        IN \E id \in DOMAIN cig : \E i \in 1..Len(cig[id].cis) :
              /\ cig[id].cis[i].handle = h
              /\ stream'[h].iso_type.kind = "Cis"
              /\ stream'[h].iso_interval_us = e.iso_interval * 1250
              /\ stream'[h].iso_type.c_to_p.sdu_interval_us = cig[id].sdu_interval_c_to_p
              /\ stream'[h].iso_type.c_to_p.max_sdu_size = cig[id].cis[i].max_sdu_size_c_to_p
              /\ stream'[h].iso_type.c_to_p.flush_timeout = e.ft_c_to_p

\* LeCreateBig: the BIG recorded has the command's SDU interval and size.
BigRecorded ==
    StreamStep("LeCreateBig") =>
        LET c == last'.data
        IN /\ big'[c.big_handle].sdu_interval = c.sdu_interval
           /\ big'[c.big_handle].max_sdu_size = c.max_sdu

\* No other step changes the SDU interval and size of a recorded BIG.
BigKept ==
    ~StreamStep("LeCreateBig") =>
        \A b \in DOMAIN big \cap DOMAIN big' :
            /\ big'[b].sdu_interval = big[b].sdu_interval
            /\ big'[b].max_sdu_size = big[b].max_sdu_size

\* LeCreateBigComplete: the stream of each BIS handle has the SDU interval
\* and size of the BIG.
BisStream ==
    StreamStep("LeCreateBigComplete") =>
        LET e == last'.data
        IN \A k \in 1..Len(e.bis_handles) :
              LET h == e.bis_handles[k]
              IN /\ stream'[h].iso_type.kind = "Bis"
                 /\ stream'[h].iso_type.c_to_p.sdu_interval_us = big[e.big_handle].sdu_interval
                 /\ stream'[h].iso_type.c_to_p.max_sdu_size = big[e.big_handle].max_sdu_size

\* No other step changes the parameters of a stream.
StreamKept ==
    \A h \in DOMAIN stream \cap DOMAIN stream' :
        \/ StreamStep("LeCisEstablished") /\ last'.data.connection_handle = h
        \/ StreamStep("LeCreateBigComplete")
        \/ /\ stream'[h].iso_interval_us = stream[h].iso_interval_us
           /\ stream'[h].iso_type = stream[h].iso_type

\* The stream-start of the handle h carries the ISO interval of the stream
\* of h and the SDU interval, SDU size and flush timeout of its c_to_p
\* direction.
StartCarries ==
    \A h \in Handles :
        last'.op = "in_evt" /\ last'.arg.start = <<h>> =>
            /\ h \in DOMAIN stream
            /\ service'.streams[h] =
                 [ isoIntervalUs |-> stream[h].iso_interval_us,
                   sduIntervalUs |-> stream[h].iso_type.c_to_p.sdu_interval_us,
                   maxSduSize |-> stream[h].iso_type.c_to_p.max_sdu_size,
                   flushTimeout |-> stream[h].iso_type.c_to_p.flush_timeout ]

\* C30: the stream-start of a CIS handle h carries iso_interval x 1250 and
\* ft_c_to_p of the LeCisEstablished event of h, the sdu_interval_c_to_p of
\* the CIG, and the max_sdu_c_to_p of the CIS whose position in the
\* LeSetCigParameters command is the position of h in the handle list of
\* the completion; the stream-start of a BIS handle carries the
\* sdu_interval and max_sdu of the BIG.  Step by step: the command records
\* the values by position, the completion gives the handle of a position
\* to the CIS at that position, the establishment builds the stream of h
\* from the CIS that has the handle h, the stream keeps its parameters, and
\* the start carries them.
StreamStartConfiguration ==
    [][ /\ CigRecorded /\ CigHandles /\ CigKept /\ CisStream
        /\ BigRecorded /\ BigKept /\ BisStream
        /\ StreamKept /\ StartCarries ]_vars

\* Reached: the controller gave handle 1 to the second CIS of the command,
\* and the stream of handle 1 starts with the SDU size of that CIS, which
\* differs from the first one's.
StreamStartConfigurationWitness ==
    /\ last.op = "in_evt" /\ last.arg.start = <<1>>
    /\ 1 \in DOMAIN stream /\ stream[1].iso_type.kind = "Cis"
    /\ \E id \in DOMAIN cig :
          /\ Len(cig[id].cis) = 2
          /\ cig[id].cis[2].handle = 1
          /\ cig[id].cis[1].max_sdu_size_c_to_p # cig[id].cis[2].max_sdu_size_c_to_p
          /\ service.streams[1].maxSduSize = cig[id].cis[2].max_sdu_size_c_to_p
          /\ service.streams[1].sduIntervalUs = cig[id].sdu_interval_c_to_p
    /\ service.streams[1].isoIntervalUs = 20000
    /\ service.streams[1].flushTimeout = 3

\* ------------------------------------------------------ framing constraint

\* The SDU intervals (us) of the groups and the ISO intervals (1.25 ms
\* units) of the events the stream constructors are applied to: 0 is "no
\* data in this direction"; 4, 6, 8, 12, 16, 24 units are 5000, 7500, 10000,
\* 15000, 20000, 30000 us.
FramingSduIntervals == {0, 5000, 7500, 10000}
FramingIsoIntervals == {4, 6, 8, 12, 16, 24}
FramingCigs ==
    [ sdu_interval_c_to_p : FramingSduIntervals,
      sdu_interval_p_to_c : FramingSduIntervals,
      cis : {<<[handle |-> 1, max_sdu_size_c_to_p |-> 120, max_sdu_size_p_to_c |-> 120]>>} ]
FramingCisEstablisheds ==
    [ kind : {"LeCisEstablished"}, status : {"Success"}, connection_handle : {1},
      ft_c_to_p : {1}, ft_p_to_c : {1}, iso_interval : FramingIsoIntervals ]
FramingBigs ==
    [ sdu_interval : FramingSduIntervals, max_sdu_size : {120}, bis_handles : {<<>>} ]
FramingBigCompletes ==
    [ kind : {"LeCreateBigComplete"}, status : {"Success"}, big_handle : BigHandles,
      irc : {2}, iso_interval : FramingIsoIntervals, bis_handles : {<<1>>} ]

\* Stream::new_cis(cig, e): the stream, or the panic of an assertion.
FramingNewCis ==
    /\ ~panicked
    /\ \E g \in FramingCigs, e \in FramingCisEstablisheds :
         IF new_cis_panics(g, e)
         THEN Panic("new_cis", [group |-> g, e |-> e])
         ELSE /\ last' = Op("new_cis", [group |-> g, e |-> e, stream |-> new_cis(g, e)])
              /\ UNCHANGED codec_vars

\* Stream::new_bis(big, e): the stream, or the panic of the remainder or of
\* the assertion.
FramingNewBis ==
    /\ ~panicked
    /\ \E b \in FramingBigs, e \in FramingBigCompletes :
         IF new_bis_panics(b, e)
         THEN Panic("new_bis", [group |-> b, e |-> e])
         ELSE /\ last' = Op("new_bis", [group |-> b, e |-> e, stream |-> new_bis(b, e)])
              /\ UNCHANGED codec_vars

NextFraming ==
    \/ FramingNewCis
    \/ FramingNewBis

SpecFraming == InitCodec /\ [][NextFraming]_vars

\* The SDU intervals of the group a constructor was given.
FramingIntervalsOf(in, group) ==
    IF in = "new_cis"
    THEN {group.sdu_interval_c_to_p, group.sdu_interval_p_to_c}
    ELSE {group.sdu_interval}

\* iso_interval x 1250 is an integer multiple of every nonzero interval.
FramingMultiple(e, intervals) ==
    \A s \in intervals : s # 0 => (e.iso_interval * 1250) % s = 0

\* C31 (framing constraint): new_cis and new_bis build the stream if and
\* only if the ISO interval in microseconds is an integer multiple of every
\* nonzero SDU interval of the group, and panic otherwise; a zero SDU
\* interval is no constraint and no failure, for CIS and BIS alike.
FramingConstraint ==
    /\ last.op \in {"new_cis", "new_bis"} =>
           FramingMultiple(last.arg.e, FramingIntervalsOf(last.op, last.arg.group))
    /\ last.op = "panic" /\ last.arg.in \in {"new_cis", "new_bis"} =>
           ~FramingMultiple(last.arg.arg.e,
                            FramingIntervalsOf(last.arg.in, last.arg.arg.group))

\* What holds of the code: the constraint as stated for a CIS; a BIS is
\* built if and only if its SDU interval is nonzero and divides the ISO
\* interval.
FramingOfTheCode ==
    /\ last.op \in {"new_cis", "new_bis"} =>
           FramingMultiple(last.arg.e, FramingIntervalsOf(last.op, last.arg.group))
    /\ last.op = "new_bis" => last.arg.group.sdu_interval # 0
    /\ last.op = "panic" /\ last.arg.in = "new_cis" =>
           ~FramingMultiple(last.arg.arg.e,
                            FramingIntervalsOf("new_cis", last.arg.arg.group))
    /\ last.op = "panic" /\ last.arg.in = "new_bis" =>
           \/ last.arg.arg.group.sdu_interval = 0
           \/ ~FramingMultiple(last.arg.arg.e,
                               FramingIntervalsOf("new_bis", last.arg.arg.group))

\* ---------------------------------------------- concurrent out_cmd, in_evt

\* out_cmd and in_evt called from several threads.  An arm of the match
\* that locks the state holds the guard to the end of the arm: the handler
\* hands the packet to the next module after the arm, the mutex released.
\* Two arms hand on inside the arm, the mutex held: LeSetupIsoDataPath of
\* out_cmd and NumberOfCompletedPackets of in_evt.
MaxIntake == 3
IntakeCmds == StreamCigCmds
IntakeEvts == [kind : {"LeRemoveCig"}, status : {"Success"}, cig_id : CigIds]
IntakeNocps ==
    { e \in NumberOfCompletedPacketsEvtsOf({}) : e.handles # <<>> /\ e.trailing = 0 }

\* The mutex is taken: the packet gets its number in the order of intake.
intake_take(t, chan, data) ==
    [intake EXCEPT !.taken = @ + 1,
                   !.held[t] = <<[chan |-> chan, data |-> data, seq |-> intake.taken + 1]>>]
\* The packet is handed to the next module.
intake_send(in, chan, data, seq) ==
    [in EXCEPT !.sent = Append(@, [chan |-> chan, data |-> data, seq |-> seq])]

\* out_cmd on thread t, the arm of LeSetCigParameters: the CIG is recorded
\* under the mutex, which the end of the arm releases.
IntakeOutCmdArm(t) ==
    /\ ~panicked
    /\ intake.held[t] = <<>> /\ intake.taken < MaxIntake
    /\ \E c \in IntakeCmds :
         /\ cig' = MapPut(cig, c.cig_id, CigParameters_new(c))
         /\ intake' = intake_take(t, "out_cmd", c)
         /\ last' = Op("lock", [thread |-> t, chan |-> "out_cmd", data |-> c])
    /\ UNCHANGED <<big, stream, service, arbiter, panicked, hal, upgraded, setup_sent,
                   env_vars, pushed, emitted, stale>>

\* in_evt on thread t, the arm of the LeRemoveCig completion: the CIG is
\* forgotten under the mutex, which the end of the arm releases.
IntakeInEvtArm(t) ==
    /\ ~panicked
    /\ intake.held[t] = <<>> /\ intake.taken < MaxIntake
    /\ \E e \in IntakeEvts :
         /\ cig' = MapDel(cig, e.cig_id)
         /\ intake' = intake_take(t, "in_evt", e)
         /\ last' = Op("lock", [thread |-> t, chan |-> "in_evt", data |-> e])
    /\ UNCHANGED <<big, stream, service, arbiter, panicked, hal, upgraded, setup_sent,
                   env_vars, pushed, emitted, stale>>

\* out_cmd or in_evt on thread t, after the match: self.next().out_cmd(data)
\* or self.next().in_evt(data).
IntakeForward(t) ==
    /\ ~panicked
    /\ intake.held[t] # <<>>
    /\ LET p == intake.held[t][1] IN
         /\ intake' = [intake_send(intake, p.chan, p.data, p.seq) EXCEPT !.held[t] = <<>>]
         /\ last' = Op("forward", [thread |-> t, chan |-> p.chan, data |-> p.data])
    /\ UNCHANGED <<proxy_vars, arbiter, panicked, hal, upgraded, setup_sent,
                   env_vars, pushed, emitted, stale>>

\* in_evt on thread t, the arm of NumberOfCompletedPackets with an arbiter:
\* the entries are credited and the rewritten event, if it has an entry, is
\* handed on, all under the mutex.
IntakeInEvtNocp(t) ==
    /\ ~panicked
    /\ arbiter # <<>>
    /\ intake.held[t] = <<>> /\ intake.taken < MaxIntake
    /\ \E e \in IntakeNocps :
         LET kept == nocp_stack_handles(stream, e.handles)
             taken == [intake EXCEPT !.taken = @ + 1]
         IN
         IF nocp_set_completed_panics(arbiter[1], e.handles)
         THEN Panic("in_evt", [kind |-> e.kind])
         ELSE /\ arbiter' = <<nocp_set_completed(arbiter[1], e.handles)>>
              /\ intake' = IF kept # <<>>
                           THEN intake_send(taken, "in_evt",
                                            NumberOfCompletedPackets_to_bytes(kept),
                                            taken.taken)
                           ELSE taken
              /\ last' = Op("forward", [thread |-> t, chan |-> "in_evt", data |-> e])
              /\ ctrl' = [h \in Handles |-> ctrl[h] - nocp_count(e.handles, h)]
              /\ stack_owed' = [h \in Handles |-> stack_owed[h] - nocp_count(kept, h)]
              /\ UNCHANGED <<proxy_vars, panicked, hal, upgraded, setup_sent, started,
                             pushed, emitted, stale>>

NextIntake ==
    \/ \E t \in IntakeThreads : IntakeOutCmdArm(t)
    \/ \E t \in IntakeThreads : IntakeInEvtArm(t)
    \/ \E t \in IntakeThreads : IntakeForward(t)
    \/ \E t \in IntakeThreads : IntakeInEvtNocp(t)

SpecIntake == InitArbiter /\ [][NextIntake]_vars

\* C32 (per-channel order under concurrency): the packets of a channel are
\* handed to the next module in the order in which the proxy took them in,
\* the order in which the state mutex was acquired, also when out_cmd or
\* in_evt is called from several threads.
IntakeOrder ==
    \A i \in 1..Len(intake.sent) : \A j \in 1..Len(intake.sent) :
        i < j /\ intake.sent[i].chan = intake.sent[j].chan
            => intake.sent[i].seq < intake.sent[j].seq

\* What holds of the code: a packet handed on under the mutex is not
\* overtaken by one taken in after it.
IntakeOrderOfTheCode ==
    \A i \in 1..Len(intake.sent) : \A j \in 1..Len(intake.sent) :
        i < j /\ intake.sent[j].data.kind = "NumberOfCompletedPackets"
            => intake.sent[i].seq < intake.sent[j].seq

\* ------------------------------------- HAL binding: its locks, its threads

\* The binding with the calls that run concurrently, each on a thread of
\* its own, and the three locks they take:
\*   the state lock (RwLock<State>): written by initialize, close, the death
\*     recipient and initialization_complete, read by the sends;
\*   the driver-interface mutex (Ffi.intf): held across every driver call;
\*   the callback-target lock (Ffi.wrapper): written by set_client and
\*     remove_client, read by CCallbacks::unwrap_client across the callback.
\* state, session: State, and the number of sessions opened so far, which
\*   names the session that is open and its client;
\* wrapper: the session whose FfiCallbacks the wrapper holds;
\* driver: the last lifecycle entry of the driver that was called;
\* pending: the driver has a completion of initialize to report;
\* s_writer, s_readers, i_owner, w_readers: the holders of the locks;
\* pc: where each call is; death_of, init_of: the session of the client
\*   whose death is notified, and of the initialize call in progress.
BindRoles == {"initialize", "close", "death", "send", "callback"}
MaxSessions == 3
NoBinding ==
    [ state |-> "Closed", session |-> 0, wrapper |-> <<>>, driver |-> "off",
      pending |-> FALSE,
      s_writer |-> <<>>, s_readers |-> {}, i_owner |-> <<>>, w_readers |-> {},
      pc |-> [r \in BindRoles |-> "idle"], death_of |-> 0, init_of |-> 0 ]

\* RwLock::write, RwLock::read and Mutex::lock return when the lock is free
\* of the holders that exclude the caller.
state_write_free == hal.s_writer = <<>> /\ hal.s_readers = {}
state_read_free == hal.s_writer = <<>>
intf_free == hal.i_owner = <<>>
wrapper_write_free == hal.w_readers = {}

\* initialize, the block under the state write lock: refused unless Closed;
\* else State::Opened with the death watch on the caller.
BindInitialize ==
    /\ hal.pc["initialize"] = "idle" /\ hal.session < MaxSessions
    /\ state_write_free
    /\ IF initialize_refused(hal.state)
       THEN /\ last' = Op("initialize", [state |-> hal.state, session |-> hal.session,
                                         reports |-> <<"ALREADY_INITIALIZED">>])
            /\ UNCHANGED hal
       ELSE /\ hal' = [hal EXCEPT !.state = "Opened", !.session = @ + 1,
                                  !.init_of = hal.session + 1,
                                  !.pc["initialize"] = "ffi"]
            /\ last' = Op("initialize", [state |-> hal.state, session |-> hal.session + 1,
                                         reports |-> <<>>])
    /\ UNCHANGED session_vars

\* Ffi::initialize: self.intf.lock().
BindFfiInitializeLock ==
    /\ hal.pc["initialize"] = "ffi" /\ intf_free
    /\ hal' = [hal EXCEPT !.i_owner = <<"initialize">>, !.pc["initialize"] = "set"]
    /\ last' = Op("intf.lock", [by |-> "initialize"])
    /\ UNCHANGED session_vars

\* Ffi::initialize: set_client, the driver's initialize, the mutex released.
BindFfiInitialize ==
    /\ hal.pc["initialize"] = "set" /\ wrapper_write_free
    /\ hal' = [hal EXCEPT !.wrapper = <<hal.init_of>>, !.driver = "initialize",
                          !.pending = TRUE,
                          !.i_owner = <<>>, !.pc["initialize"] = "idle"]
    /\ last' = Op("ffi_initialize", [session |-> hal.init_of])
    /\ UNCHANGED session_vars

\* close, first statement: State::Closed under the state write lock.
BindClose ==
    /\ hal.pc["close"] = "idle"
    /\ state_write_free
    /\ hal' = [hal EXCEPT !.state = "Closed", !.pc["close"] = "ffi"]
    /\ last' = Op("close", [state |-> hal.state])
    /\ UNCHANGED session_vars

\* Ffi::close: self.intf.lock(), the driver's close.
BindFfiCloseLock ==
    /\ hal.pc["close"] = "ffi" /\ intf_free
    /\ hal' = [hal EXCEPT !.i_owner = <<"close">>, !.driver = "close", !.pending = FALSE,
                          !.pc["close"] = "remove"]
    /\ last' = Op("intf.lock", [by |-> "close"])
    /\ UNCHANGED session_vars

\* Ffi::close: remove_client, the mutex released.
BindFfiClose ==
    /\ hal.pc["close"] = "remove" /\ wrapper_write_free
    /\ hal' = [hal EXCEPT !.wrapper = <<>>, !.i_owner = <<>>, !.pc["close"] = "idle"]
    /\ last' = Op("ffi_close", NoArg)
    /\ UNCHANGED session_vars

\* The client of the open session dies: binder calls the death recipient
\* linked to it.
BindDeathNotified ==
    /\ hal.pc["death"] = "idle" /\ hal.state = "Opened"
    /\ hal' = [hal EXCEPT !.death_of = hal.session, !.pc["death"] = "start"]
    /\ last' = Op("died", [session |-> hal.session])
    /\ UNCHANGED session_vars

\* The death recipient: state.write().
BindDeathLock ==
    /\ hal.pc["death"] = "start" /\ state_write_free
    /\ hal' = [hal EXCEPT !.s_writer = <<"death">>, !.pc["death"] = "ffi"]
    /\ last' = Op("state.write", [by |-> "death"])
    /\ UNCHANGED session_vars

\* The death recipient, Ffi::client_died: self.intf.lock(), the driver's
\* client_died.
BindDeathFfiLock ==
    /\ hal.pc["death"] = "ffi" /\ intf_free
    /\ hal' = [hal EXCEPT !.i_owner = <<"death">>, !.driver = "client_died",
                          !.pending = FALSE, !.pc["death"] = "remove"]
    /\ last' = Op("client_died", [of |-> hal.death_of, state |-> hal.state,
                                  session |-> hal.session])
    /\ UNCHANGED session_vars

\* The death recipient: remove_client, the mutex released, State::Closed,
\* the state lock released.
BindDeathClosed ==
    /\ hal.pc["death"] = "remove" /\ wrapper_write_free
    /\ hal' = [hal EXCEPT !.wrapper = <<>>, !.i_owner = <<>>, !.state = "Closed",
                          !.s_writer = <<>>, !.pc["death"] = "idle"]
    /\ last' = Op("death_closed", [of |-> hal.death_of, state |-> hal.state,
                                   session |-> hal.session])
    /\ UNCHANGED session_vars

\* A send: state.read(); ILLEGAL_STATE unless Opened.
BindSend ==
    /\ hal.pc["send"] = "idle" /\ state_read_free
    /\ IF send_allowed(hal.state)
       THEN hal' = [hal EXCEPT !.s_readers = @ \cup {"send"}, !.pc["send"] = "ffi"]
       ELSE UNCHANGED hal
    /\ last' = Op("send", [state |-> hal.state])
    /\ UNCHANGED session_vars

\* A send, Ffi::send_*: self.intf.lock(), the driver's send, the mutex and
\* the state lock released.
BindSendFfi ==
    /\ hal.pc["send"] = "ffi" /\ intf_free
    /\ hal' = [hal EXCEPT !.s_readers = @ \ {"send"}, !.pc["send"] = "idle"]
    /\ last' = Op("ffi_send", NoArg)
    /\ UNCHANGED session_vars

\* The driver reports the end of its initialization on a thread of its own,
\* CCallbacks::unwrap_client: wrapper.read(); without a client an error is
\* logged.
BindCallback ==
    /\ hal.pc["callback"] = "idle" /\ hal.pending
    /\ IF hal.wrapper = <<>>
       THEN hal' = [hal EXCEPT !.pending = FALSE]
       ELSE hal' = [hal EXCEPT !.pending = FALSE, !.w_readers = @ \cup {"callback"},
                               !.pc["callback"] = "complete"]
    /\ last' = Op("unwrap_client", [client |-> hal.wrapper])
    /\ UNCHANGED session_vars

\* FfiCallbacks::initialization_complete: state.write(), State::Closed on a
\* status other than Success, the stack called back, the locks released.
BindInitializationComplete ==
    /\ hal.pc["callback"] = "complete" /\ state_write_free
    /\ \E status \in CStatuses :
         /\ hal' = [hal EXCEPT !.state = IF status # "Success" THEN "Closed" ELSE @,
                               !.w_readers = @ \ {"callback"},
                               !.pc["callback"] = "idle"]
         /\ last' = Op("initialization_complete", [status |-> status])
    /\ UNCHANGED session_vars

InitBinding ==
    /\ arbiter = <<>> /\ panicked = FALSE
    /\ big = EmptyMap /\ cig = EmptyMap /\ stream = EmptyMap
    /\ service = NoService /\ ctrl = NoCounts /\ started = {}
    /\ stack_owed = NoCounts /\ pushed = NoPushed /\ emitted = NoEmitted
    /\ stale = FALSE /\ upgraded = <<>> /\ intake = NoIntake /\ setup_sent = NoSetup
    /\ hal = NoBinding
    /\ last = Op("new", NoArg)

NextBinding ==
    \/ BindInitialize
    \/ BindFfiInitializeLock
    \/ BindFfiInitialize
    \/ BindClose
    \/ BindFfiCloseLock
    \/ BindFfiClose
    \/ BindDeathNotified
    \/ BindDeathLock
    \/ BindDeathFfiLock
    \/ BindDeathClosed
    \/ BindSend
    \/ BindSendFfi
    \/ BindCallback
    \/ BindInitializationComplete

SpecBinding == InitBinding /\ [][NextBinding]_vars

\* C33 (stale client death): whatever the interleaving of the death
\* recipient with initialize and close, the death recipient of the client
\* of an earlier session neither calls the driver's client_died on a newer
\* open session nor moves it to Closed.
StaleClientDeath ==
    ~(/\ last.op \in {"client_died", "death_closed"}
      /\ last.arg.state = "Opened"
      /\ last.arg.of # last.arg.session)

\* The call of the role waits for a lock another call holds.
BindBlocked(r) ==
    \/ hal.pc[r] = "start" /\ ~state_write_free
    \/ hal.pc[r] = "complete" /\ ~state_write_free
    \/ hal.pc[r] = "ffi" /\ ~intf_free
    \/ hal.pc[r] \in {"set", "remove"} /\ ~wrapper_write_free

\* C39 (the HAL binding is deadlock-free): in no interleaving of the death
\* recipient, initialize, close, the sends and the driver's callbacks do the
\* calls in progress all wait for a lock one of them holds; each driver call
\* returns, so a call that does not wait goes on to return.
BindingDeadlockFree ==
    (\E r \in BindRoles : hal.pc[r] # "idle")
        => \E r \in BindRoles : hal.pc[r] # "idle" /\ ~BindBlocked(r)

\* initialize and close called concurrently, nothing else.
NextLifecycle ==
    \/ BindInitialize
    \/ BindFfiInitializeLock
    \/ BindFfiInitialize
    \/ BindClose
    \/ BindFfiCloseLock
    \/ BindFfiClose

SpecLifecycle == InitBinding /\ [][NextLifecycle]_vars

\* C34 (lifecycle atomicity): whatever the interleaving of concurrent
\* initialize and close calls, once all of them have returned the state is
\* Opened if and only if the last lifecycle entry of the driver that was
\* called is initialize and the callback target is installed.
LifecycleAtomicity ==
    (hal.pc["initialize"] = "idle" /\ hal.pc["close"] = "idle")
        => (hal.state = "Opened"
              <=> (hal.driver = "initialize" /\ hal.wrapper # <<>>))

\* ------------------------------------------------- service: reset's frame

\* C35 (service reset frame): reset empties the active-stream map and
\* leaves the rest of the service's state as it is, the arbiter reference
\* apart: a client registered before the reset is still registered after
\* it, so that startStream is called on it for a stream started later.
ServiceResetFrame ==
    [][last'.op = "service_reset"
         => /\ service'.streams = EmptyMap
            /\ service'.callbacks = service.callbacks]_vars

\* What holds of the code: reset leaves the default State, no client
\* registered, and a stream started next calls no startStream.
ServiceResetOfTheCode ==
    [][/\ last'.op = "service_reset"
            => service'.streams = EmptyMap /\ service'.callbacks = <<>>
       /\ last.op = "service_reset" /\ last'.op = "start_stream"
            => last'.arg.startStream = <<>>]_vars

\* ------------------------------------------------ start/stop alternation

\* C36 (start/stop alternation): for each handle the stream-starts and the
\* stream-stops emitted to the offload service alternate, a start first: no
\* start is emitted for a handle that has a start with no stop since, and
\* no stop for a handle that has none.
StartStopAlternation ==
    [][\A h \in Handles :
         /\ ( /\ last'.op = "in_evt" /\ "start" \in DOMAIN last'.arg
              /\ last'.arg.start = <<h>> )
            => h \notin started
         /\ ( /\ last'.op = "pass" /\ "data" \in DOMAIN last'
              /\ last'.data.kind = "LeRemoveIsoDataPath"
              /\ last'.arg.stop = <<h>> )
            => h \in started]_vars

\* What holds of the code: a stop is emitted only for a handle that has a
\* start with no stop since.
StopsFollowStarts ==
    [][\A h \in Handles :
         ( /\ last'.op = "pass" /\ "data" \in DOMAIN last'
           /\ last'.data.kind = "LeRemoveIsoDataPath"
           /\ last'.arg.stop = <<h>> )
         => h \in started]_vars

\* ------------------------------------------- arbiter: queues and handles

\* C37 (queued packets belong to tracked handles): in every state of the
\* arbiter every packet of either queue has a handle with an in_transit
\* entry, and the sender's increment of in_transit for the packet it pops
\* never fails.
QueuedTracked ==
    /\ arbiter # <<>> =>
         \A o \in Origins : \A i \in 1..Len(arbiter[1].queues[o]) :
             arbiter[1].queues[o][i].handle \in DOMAIN arbiter[1].in_transit
    /\ ~(last.op = "panic" /\ last.arg.in = "pull")

\* C37, its case: two packets were queued and none was popped; a connection
\* has been removed with its packet, the packet of the other connection
\* stays queued.
QueuedTrackedWitness ==
    /\ arbiter # <<>>
    /\ last.op = "remove_connection"
    /\ last.arg.handle \notin DOMAIN arbiter[1].in_transit
    /\ pushed[Audio] + pushed[Incoming] = 2
    /\ emitted = NoEmitted /\ arbiter[1].packet = <<>>
    /\ DOMAIN arbiter[1].in_transit = Handles \ {last.arg.handle}
    /\ \E o \in Origins :
         /\ Len(arbiter[1].queues[o]) = 1
         /\ arbiter[1].queues[o][1].handle # last.arg.handle
         /\ \A p \in Origins \ {o} : arbiter[1].queues[p] = <<>>

\* ------------------------------------------- arbiter: in-transit counts

\* The packets for handle the step pops, and the count the step credits.
step_popped(handle) ==
    IF last'.op = "pull" /\ last'.arg.packet.handle = handle THEN 1 ELSE 0
step_credited(handle) ==
    IF last'.op = "set_completed" /\ last'.arg.handle = handle THEN last'.arg.num ELSE 0

\* C38 (in-transit accounting): the count of a handle is 0 when the handle
\* is added, and from then on every step changes it by the packets for the
\* handle that the sender pops in the step minus the count set_completed
\* credits in the step; so for a tracked handle in_transit is the number of
\* its packets popped since it was last added minus the sum credited since.
InTransitAccounting ==
    [][(arbiter # <<>> /\ arbiter' # <<>> /\ last'.op # "panic") =>
         \A h \in DOMAIN arbiter'[1].in_transit :
            IF h \in DOMAIN arbiter[1].in_transit
            THEN arbiter'[1].in_transit[h] =
                   arbiter[1].in_transit[h] + step_popped(h) - step_credited(h)
            ELSE /\ last'.op = "add_connection" /\ last'.arg.handle = h
                 /\ arbiter'[1].in_transit[h] = 0
                 /\ step_popped(h) = 0 /\ step_credited(h) = 0]_vars

\* C38, its case: of two packets of a handle popped one has been credited,
\* the other is still counted.
InTransitAccountingWitness ==
    /\ arbiter # <<>>
    /\ last.op = "set_completed" /\ last.arg.num = 1
    /\ last.arg.handle \in DOMAIN arbiter[1].in_transit
    /\ arbiter[1].in_transit[last.arg.handle] = 1
    /\ \E o \in Origins : emitted[o][last.arg.handle] >= 2

\* --------------------------------------- proxy: rejected reconfiguration

\* The step is the controller's rejection of the LeSetCigParameters command
\* the step before it handed on, for a cig_id that was configured: the
\* record the command replaced had a handle for each CIS.
RejectedReconfiguration ==
    /\ last.op = "pass" /\ "replaced" \in DOMAIN last
    /\ last.data.kind = "LeSetCigParameters"
    /\ last.replaced # <<>>
    /\ \A i \in 1..Len(last.replaced) : last.replaced[i] # 0
    /\ last'.op = "pass" /\ "data" \in DOMAIN last'
    /\ last'.data.kind = "LeSetCigParametersComplete"
    /\ last'.data.status # "Success"
    /\ last'.data.cig_id = last.data.cig_id

\* C40 (rejected CIG reconfiguration): when the controller rejects a
\* LeSetCigParameters command for a configured cig_id, the CIG record has
\* the CIS handles of the last successful configuration, and each of these
\* handles is still found in a CIG, as LeCisEstablished looks it up.
RejectedCigKeepsHandles ==
    [][RejectedReconfiguration =>
         /\ last.data.cig_id \in DOMAIN cig'
         /\ cis_handles(cig'[last.data.cig_id]) = last.replaced
         /\ \A i \in 1..Len(last.replaced) :
              \E id \in DOMAIN cig' : cig_has(cig'[id], last.replaced[i])]_vars

\* What the code does: the command has replaced the record by one whose
\* CIS have handle 0, and the rejection leaves it so.
RejectedCigOfTheCode ==
    [][RejectedReconfiguration =>
         /\ cig' = cig
         /\ last.data.cig_id \in DOMAIN cig'
         /\ \A i \in 1..Len(cig'[last.data.cig_id].cis) :
              cig'[last.data.cig_id].cis[i].handle = 0]_vars

====
